---- MODULE Spec2Model ----
(***************************************************************************)
(* Household-finance dashboard (kakeibo-analytics): the classification and *)
(* monthly aggregation pipeline of the balance, fixed/variable-cost and    *)
(* food pages.                                                             *)
(*                                                                         *)
(* Text: a string is a sequence of character tokens; the Japanese          *)
(* characters of the source are written as romanised tokens, so that       *)
(* str.contains is a real substring search and isin a real equality.       *)
(*   shuu nyuu = income marker       kyuu yo = salary marker               *)
(*   ichi ji sho toku = one-time-income marker    shoku hi = food marker   *)
(* A missing text cell (NaN) is the one-token string NaN.                  *)
(*                                                                         *)
(* Numbers: amounts are integers (yen).  A float cell of a summary frame   *)
(* is a record [k, v]: k = "num" with value v, k = "nan", or k = "inf"     *)
(* with v the sign.  A ratio cell holds tenths of a percent (v = 333 is    *)
(* 33.3), which is what round(1) leaves.                                   *)
(***************************************************************************)
EXTENDS Integers, Sequences, FiniteSets, TLC

VARIABLES
    csv_files,             \* the *.csv objects of the bucket, in the order glob lists them
    kakeibo_data,          \* what read_csv_files_from_s3 returned to the running page
    page,                  \* page script that is running: home, balance, fvc, food
    error,                 \* the exception that ended the run of the page, or "none"
    warning,               \* the st.warning message the page has shown, or "none"
    data_range,            \* oldest and newest date shown by display_kakeibo_data_range
    balance_df,            \* balance.preprocess_data result
    total_income_expense,  \* balance.calculate_total_income_expense result
    average_income_expense,\* values computed by balance.display_average_income_expense
    monthly_balance,       \* monthly_summary of the last plot_monthly_balance_trend call
    fvc_df,                \* fixed_variable_cost.preprocess_kakeibo_data result
    monthly_cost_summary,  \* summarize_monthly_fixed_variable_costs result
    cost_summaries,        \* values computed by display_cost_summaries
    food_df,               \* food_analysis.preprocess_kakeibo_data result
    monthly_food_summary,  \* summarize_monthly_food_data result
    workday_food_average,  \* calculate_workday_food_average result
    weekday_args,          \* <<year, month>> handed to get_weekday_count_in_month
    weekday_result,        \* what get_weekday_count_in_month returned
    all_df,                \* main.py: the frame load_all_data_from_s3 returned
    found_files,           \* main.py: the paths load_all_data_from_s3 returned
    file_count,            \* main.py: the number of source files shown to the user
    uploaded_file,         \* file_upload.py: the file of st.file_uploader, or NoFile
    upload_pc,             \* file_upload.py: how far the run of main has come
    upload_message,        \* file_upload.py: the st.error or st.success that ended the run
    s3_key,                \* file_upload.py: the key determine_s3_key returned
    upload_log,            \* file_upload.py: the steps of main passed, in order
    cache,                 \* st.cache_data: the entry of each cached read_csv_files_from_s3
    cache_hit,             \* whether the running page took its data from the cache
    reruns,                \* the number of reruns of the script so far
    previous_run           \* what the run before the last rerun had produced

vars == <<csv_files, kakeibo_data, page, error, warning, data_range, balance_df,
          total_income_expense, average_income_expense, monthly_balance,
          fvc_df, monthly_cost_summary, cost_summaries, food_df,
          monthly_food_summary, workday_food_average, weekday_args, weekday_result,
          all_df, found_files, file_count, uploaded_file, upload_pc,
          upload_message, s3_key, upload_log, cache, cache_hit, reruns,
          previous_run>>

----------------------------------------------------------------------------
(* Bounds of the model *)

\* largest number of rows of a raw table
MaxRows == 2

\* largest number of rows of a raw table in the classification specification
MaxClassifyRows == 2

\* largest number of rows of a raw table in the balance specification
MaxBalanceRows == 3

\* largest number of rows of a raw table in the ordering specification
MaxOrderRows == 3

\* largest number of rows of a raw table in the food specification
MaxFoodRows == 2

\* largest number of rows of a raw table in the schema specification
MaxSchemaRows == 2

\* largest number of objects of a listing
MaxFiles == 2

\* the years get_weekday_count_in_month is applied to
MaxReruns == 1
FirstUploadYear == 2024
LastUploadYear == 2025
FirstYear == 1896
LastYear == 2104

----------------------------------------------------------------------------
(* Text cells *)

NaN == <<"NaN">>

INCOME_MARKER == <<"shuu", "nyuu">>
SALARY_MARKER == <<"kyuu", "yo">>
BONUS_MARKER == <<"ichi", "ji", "sho", "toku">>
FOOD_MARKER == <<"shoku", "hi">>

\* config.FIXED_COST_CATEGORIES
FIXED_COST_CATEGORIES ==
    { <<"tsuu", "shin", "hi">>,
      <<"ho", "ken">>,
      <<"sui", "dou", "nakaguro", "kou", "netsu", "hi">>,
      <<"juu", "taku">> }

\* the designated workplace-meal minor category of food_analysis
WORK_FOOD_CATEGORY == <<"shoku", "hi", "-", "kai">>

\* substring search: pat occurs in s at some position
Contains(s, pat) ==
    \E i \in 1..(Len(s) - Len(pat) + 1) : SubSeq(s, i, i + Len(pat) - 1) = pat

\* Series.str.contains(pat): a missing cell gives a missing result
StrContains(s, pat) ==
    IF s = NaN THEN "NaN" ELSE IF Contains(s, pat) THEN "True" ELSE "False"

\* Series.str.contains(pat, na=False)
StrContainsNaFalse(s, pat) == s # NaN /\ Contains(s, pat)

\* pandas logical_op on one element: a missing operand of & or | gives a
\* missing result, which fill_bool turns into False
LogicalAnd(l, r) == l = "True" /\ r = "True"
LogicalOr(l, r) == l # "NaN" /\ r # "NaN" /\ (l = "True" \/ r = "True")
Tri(b) == IF b THEN "True" ELSE "False"

----------------------------------------------------------------------------
(* Dates *)

\* Series.dt.to_period('M'): the year and month of a date <<year, month, day>>
ToPeriodM(date) == <<date[1], date[2]>>

\* chronological order of periods
PeriodLess(p, q) == p[1] < q[1] \/ (p[1] = q[1] /\ p[2] < q[2])

\* the Gregorian calendar of datetime
IsLeap(year) == year % 4 = 0 /\ (year % 100 # 0 \/ year % 400 = 0)

DaysInMonth(year, month) ==
    IF month = 2 THEN (IF IsLeap(year) THEN 29 ELSE 28)
    ELSE IF month \in {4, 6, 9, 11} THEN 30 ELSE 31

\* the text of a date cell <<year, month, day>> names a day of the calendar
IsCalendarDate(cell) ==
    /\ cell[1] >= 1
    /\ cell[2] \in 1..12
    /\ cell[3] \in 1..DaysInMonth(cell[1], cell[2])

\* the number of days before January 1st of the year
DaysBeforeYear(year) ==
    LET y == year - 1
    IN  y * 365 + (y \div 4) - (y \div 100) + (y \div 400)

\* the number of days of the year before the first day of the month
RECURSIVE DaysBeforeMonth(_, _)
DaysBeforeMonth(year, month) ==
    IF month = 1 THEN 0
    ELSE DaysBeforeMonth(year, month - 1) + DaysInMonth(year, month - 1)

\* a datetime at midnight as its day number: 0001-01-01 is day 1
Datetime(year, month, day) == DaysBeforeYear(year) + DaysBeforeMonth(year, month) + day

\* datetime.weekday(): Monday is 0 and Sunday is 6
Weekday(ordinal) == (ordinal + 6) % 7

\* chronological order of dates <<year, month, day>>
DateLess(d, e) == Datetime(d[1], d[2], d[3]) < Datetime(e[1], e[2], e[3])

----------------------------------------------------------------------------
(* Sequences *)

RECURSIVE SumAmount(_)
SumAmount(rows) ==
    IF rows = <<>> THEN 0 ELSE Head(rows).amount + SumAmount(Tail(rows))

Range(s) == { s[i] : i \in 1..Len(s) }

\* the elements of a set of periods as a chronologically sorted sequence
RECURSIVE SortPeriods(_)
SortPeriods(S) ==
    IF S = {} THEN <<>>
    ELSE LET m == CHOOSE p \in S : \A q \in S : q = p \/ PeriodLess(p, q)
         IN <<m>> \o SortPeriods(S \ {m})

----------------------------------------------------------------------------
(* Float cells of a summary frame *)

Num(v) == [k |-> "num", v |-> v]
NaNCell == [k |-> "nan", v |-> 0]
Inf(sign) == [k |-> "inf", v |-> sign]

\* float addition: a missing operand gives a missing result
AddCell(a, b) ==
    IF a.k = "nan" \/ b.k = "nan" THEN NaNCell
    ELSE IF a.k = "inf" /\ b.k = "inf" THEN (IF a.v = b.v THEN a ELSE NaNCell)
    ELSE IF a.k = "inf" THEN a
    ELSE IF b.k = "inf" THEN b
    ELSE Num(a.v + b.v)

Abs(n) == IF n < 0 THEN -n ELSE n
Sign(n) == IF n < 0 THEN -1 ELSE IF n > 0 THEN 1 ELSE 0

\* n / d * 100 rounded to one decimal, in tenths, for d # 0.  The quotient
\* is rounded to the nearest tenth; when it lies exactly halfway between two
\* tenths the float computation decides the direction, which tie_away gives
\* (TRUE: away from zero, FALSE: toward zero).
\* the ratio cut off after the first decimal instead of rounded
RoundRatioTruncates(n, d, tie_away) ==
    Sign(n) * Sign(d) * ((1000 * Abs(n)) \div Abs(d))

IsTie(n, d) == d # 0 /\ (2 * ((1000 * Abs(n)) % Abs(d)) = Abs(d))
RoundRatio(n, d, tie_away) ==
    LET q == (1000 * Abs(n)) \div Abs(d)
        r == (1000 * Abs(n)) % Abs(d)
        up == 2 * r > Abs(d) \/ (2 * r = Abs(d) /\ tie_away)
    IN  Sign(n) * Sign(d) * (IF up THEN q + 1 ELSE q)

\* (a / b * 100).round(1) on float cells: division by zero gives inf or nan
RatioCell(a, b, tie_away) ==
    IF a.k # "num" \/ b.k # "num" THEN NaNCell
    ELSE IF b.v = 0 THEN (IF a.v = 0 THEN NaNCell ELSE Inf(Sign(a.v)))
    ELSE Num(RoundRatio(a.v, b.v, tie_away))

----------------------------------------------------------------------------
(* s3_utils.py *)

\* the value None
None == [is_none |-> TRUE, columns |-> {}, rows |-> <<>>]

\* a frame: the names of its columns and its rows
DataFrame(columns, rows) == [is_none |-> FALSE, columns |-> columns, rows |-> rows]

\* csv_file.split('/')[-1] of an object key, a sequence of path segments
Filename(csv_file) == csv_file.key[Len(csv_file.key)]

\* pd.read_csv of an object that opens and decodes, with source_file added
ReadCsv(csv_file) ==
    DataFrame(csv_file.columns \cup {"source_file"},
              [i \in 1..Len(csv_file.rows) |->
                  [c \in DOMAIN csv_file.rows[i] \cup {"source_file"} |->
                      IF c = "source_file" THEN Filename(csv_file)
                      ELSE csv_file.rows[i][c]]])

\* a loop that gives up at the first file that raises
RECURSIVE ReadAllStopsAtFailure(_)
ReadAllStopsAtFailure(files) ==
    IF files = <<>> THEN <<>>
    ELSE IF Head(files).readable
         THEN <<ReadCsv(Head(files))>> \o ReadAllStopsAtFailure(Tail(files))
         ELSE <<>>

\* the loop over the listing: a file that raises is left out, the others are
\* appended in the order of the listing
RECURSIVE ReadAll(_)
ReadAll(files) ==
    IF files = <<>> THEN <<>>
    ELSE IF Head(files).readable
         THEN <<ReadCsv(Head(files))>> \o ReadAll(Tail(files))
         ELSE ReadAll(Tail(files))

\* pd.concat(kakeibo_lists, ignore_index=True)
RECURSIVE Concat(_)
Concat(frames) ==
    IF frames = <<>> THEN DataFrame({}, <<>>)
    ELSE LET rest == Concat(Tail(frames))
         IN  DataFrame(Head(frames).columns \cup rest.columns,
                       Head(frames).rows \o rest.rows)

\* a kakeibo_lists that outlives the call: the frame of the earlier call
\* is still in it
read_csv_files_from_s3_keeps_list(files) ==
    LET left == IF cache["s3_utils"].done /\ ~cache["s3_utils"].value.is_none
                THEN << cache["s3_utils"].value >> ELSE <<>>
        kakeibo_lists == left \o ReadAll(files)
    IN  IF kakeibo_lists # <<>> THEN Concat(kakeibo_lists) ELSE None

read_csv_files_from_s3(files) ==
    LET kakeibo_lists == ReadAll(files)
    IN  IF kakeibo_lists # <<>> THEN Concat(kakeibo_lists) ELSE None

\* the functions decorated with @st.cache_data(ttl="1h"): the copy of
\* read_csv_files_from_s3 in balance.py and the one in s3_utils.py
CachedFunctions == { "balance", "s3_utils" }

\* an entry of the cache: nothing, or the returned value and whether its
\* time to live has not passed
NoEntry == [done |-> FALSE]
CacheEntry(value) == [done |-> TRUE, fresh |-> TRUE, value |-> value]

IsHit(entry) == entry.done /\ entry.fresh

\* a call of the cached function: the value of the entry on a hit, else the
\* value the function returns
cached_read_csv_files_from_s3(entry, files) ==
    IF IsHit(entry) THEN entry.value ELSE read_csv_files_from_s3(files)

----------------------------------------------------------------------------
(* Columns of the raw table *)

\* columns_mapping of the preprocess functions: the raw column names
\*   keisan-taishou = calculation target   hizuke = date   naiyou = description
\*   kingaku-en = amount (yen)   hoyuu-kinyuu-kikan = institution
\*   dai-koumoku = major category   chuu-koumoku = minor category
\*   furikae = transfer
columns_mapping ==
    [ c \in { "keisan-taishou", "hizuke", "naiyou", "kingaku-en",
              "hoyuu-kinyuu-kikan", "dai-koumoku", "chuu-koumoku", "memo",
              "furikae", "ID" } |->
        CASE c = "keisan-taishou" -> "is_target"
          [] c = "hizuke" -> "date"
          [] c = "naiyou" -> "description"
          [] c = "kingaku-en" -> "amount"
          [] c = "hoyuu-kinyuu-kikan" -> "financial_institution"
          [] c = "dai-koumoku" -> "major_category"
          [] c = "chuu-koumoku" -> "minor_category"
          [] c = "memo" -> "memo"
          [] c = "furikae" -> "is_transfer"
          [] c = "ID" -> "id" ]

\* df.rename(columns=columns_mapping): a name that is not a key is kept, a
\* key that is not a column is ignored
Rename(columns) ==
    { IF c \in DOMAIN columns_mapping THEN columns_mapping[c] ELSE c : c \in columns }

\* file_upload.REQUIRED_COLUMNS
REQUIRED_COLUMNS ==
    << "keisan-taishou", "hizuke", "naiyou", "kingaku-en", "hoyuu-kinyuu-kikan",
       "dai-koumoku", "chuu-koumoku", "memo", "furikae", "ID" >>

\* file_upload.validate_csv_content: the missing required columns, in the
\* order of REQUIRED_COLUMNS
validate_csv_content(columns) ==
    LET IsMissing(col) == col \notin columns
        missing_columns == SelectSeq(REQUIRED_COLUMNS, IsMissing)
    IN  [ is_valid |-> missing_columns = <<>>, missing_columns |-> missing_columns ]

\* a column of a frame with rows whose cells are all missing: read_csv gives
\* it a float dtype, and the .str accessor raises on it
IsAllMissing(data, c) ==
    /\ data.rows # <<>>
    /\ \A i \in 1..Len(data.rows) : data.rows[i][c] = NaN

\* the columns are read in the order of used_columns: a column that does not
\* exist raises KeyError, a text column (one read through .str) whose cells
\* are all missing raises AttributeError
RECURSIVE ColumnError(_, _, _)
ColumnError(data, used_columns, text_columns) ==
    IF used_columns = <<>> THEN "none"
    ELSE IF Head(used_columns) \notin Rename(data.columns) THEN "KeyError"
    ELSE IF Head(used_columns) \in text_columns /\ IsAllMissing(data, Head(used_columns))
         THEN "AttributeError"
    ELSE ColumnError(data, Tail(used_columns), text_columns)

\* the exception a preprocess function raises on what the Loader returned,
\* or "none": None has no copy(); pd.to_datetime raises on a cell that is
\* not a date; then the columns are read
PreprocessError(data, used_columns, text_columns) ==
    IF data.is_none THEN "AttributeError"
    ELSE IF "date" \notin Rename(data.columns) THEN "KeyError"
    ELSE IF \E i \in 1..Len(data.rows) : ~IsCalendarDate(data.rows[i].date)
         THEN "ValueError"
    ELSE ColumnError(data, used_columns, text_columns)

----------------------------------------------------------------------------
(* balance.py *)

\* the income flags with a row of missing minor_category left unclassified
BalanceFlagsMissingMinorUnclassified(row) ==
    LET is_income == StrContains(row.major_category, INCOME_MARKER)
        has_salary == StrContains(row.minor_category, SALARY_MARKER)
        has_bonus == StrContains(row.minor_category, BONUS_MARKER)
    IN  [ is_salary |-> LogicalAnd(is_income, has_salary),
          is_bonus |-> LogicalAnd(is_income, has_bonus),
          is_other_income |->
              /\ LogicalAnd(is_income, Tri(~LogicalOr(has_salary, has_bonus)))
              /\ row.minor_category # NaN ]

\* the three income flags of preprocess_data for one raw row
BalanceFlags(row) ==
    LET is_income == StrContains(row.major_category, INCOME_MARKER)
        has_salary == StrContains(row.minor_category, SALARY_MARKER)
        has_bonus == StrContains(row.minor_category, BONUS_MARKER)
    IN  [ is_salary |-> LogicalAnd(is_income, has_salary),
          is_bonus |-> LogicalAnd(is_income, has_bonus),
          is_other_income |->
              LogicalAnd(is_income, Tri(~LogicalOr(has_salary, has_bonus))) ]

\* a row of the frame with its index label and the flags added
WithFlags(row, idx, flags) ==
    [ idx |-> idx,
      is_target |-> row.is_target,
      is_transfer |-> row.is_transfer,
      date |-> row.date,
      amount |-> row.amount,
      major_category |-> row.major_category,
      minor_category |-> row.minor_category,
      flags |-> flags ]

\* df['is_target'] == 1 and df['is_transfer'] == 0
IsTargetRow(r) == r.is_target = 1
IsNotTransferRow(r) == r.is_transfer = 0

\* preprocess_data without the transfer filter
preprocess_data_keeps_transfers(kakeibo_df) ==
    LET df == [i \in 1..Len(kakeibo_df) |->
                  WithFlags(kakeibo_df[i], i - 1, BalanceFlags(kakeibo_df[i]))]
    IN  SelectSeq(df, IsTargetRow)

\* flags first, then the target filter, then the transfer filter; the rows
\* keep the index labels 0..n-1 of the raw table
preprocess_data(kakeibo_df) ==
    LET df == [i \in 1..Len(kakeibo_df) |->
                  WithFlags(kakeibo_df[i], i - 1, BalanceFlags(kakeibo_df[i]))]
    IN  SelectSeq(SelectSeq(df, IsTargetRow), IsNotTransferRow)

\* df['is_salary'] | df['is_bonus']
IsSalaryOrBonus(r) == r.flags.is_salary \/ r.flags.is_bonus
IsNotSalaryOrBonus(r) == ~(r.flags.is_salary \/ r.flags.is_bonus)
IsSalary(r) == r.flags.is_salary

\* totals whose income leaves out the bonus rows
calculate_total_income_expense_salary_only(df) ==
    LET total_income == SumAmount(SelectSeq(df, IsSalary))
        total_expense == SumAmount(SelectSeq(df, IsNotSalaryOrBonus))
    IN  [ total_income |-> total_income,
          total_expense |-> total_expense,
          total_balance |-> total_income + total_expense ]

calculate_total_income_expense(df) ==
    LET total_income == SumAmount(SelectSeq(df, IsSalaryOrBonus))
        total_expense == SumAmount(SelectSeq(df, IsNotSalaryOrBonus))
    IN  [ total_income |-> total_income,
          total_expense |-> total_expense,
          total_balance |-> total_income + total_expense ]

\* the group keys in the order in which the rows first show them
RECURSIVE YearMonthsInOrderOfAppearance(_)
YearMonthsInOrderOfAppearance(df) ==
    IF df = <<>> THEN <<>>
    ELSE LET front == YearMonthsInOrderOfAppearance(SubSeq(df, 1, Len(df) - 1))
             ym == ToPeriodM(df[Len(df)].date)
         IN  IF ym \in Range(front) THEN front ELSE Append(front, ym)

\* the group keys of groupby('year_month'), which sorts them
YearMonths(df) == SortPeriods({ ToPeriodM(df[i].date) : i \in 1..Len(df) })

\* the rows of one group
Group(df, ym) == LET InGroup(r) == ToPeriodM(r.date) = ym IN SelectSeq(df, InGroup)

\* groupby('year_month')['amount'].sum() as a column of a frame built from
\* several Series: a month that is not a key of this Series is missing
MonthSum(df, ym) ==
    IF Group(df, ym) = <<>> THEN NaNCell ELSE Num(SumAmount(Group(df, ym)))

\* Series.mean().round(0): the mean of the values of a column, rounded to the
\* nearest integer and to the even one at a half; missing cells are skipped
RECURSIVE SumCells(_)
SumCells(cells) ==
    IF cells = <<>> THEN 0
    ELSE (IF Head(cells).k = "num" THEN Head(cells).v ELSE 0) + SumCells(Tail(cells))

CountCells(cells) == Cardinality({ i \in 1..Len(cells) : cells[i].k = "num" })

RoundHalfEven(n, d) ==
    LET q == n \div d
        r == n % d
    IN  IF 2 * r < d THEN q
        ELSE IF 2 * r > d THEN q + 1
        ELSE IF q % 2 = 0 THEN q ELSE q + 1

MeanIsNaN(cells) == CountCells(cells) = 0

RoundedMean(cells) ==
    IF MeanIsNaN(cells) THEN NaNCell
    ELSE Num(RoundHalfEven(SumCells(cells), CountCells(cells)))

Column(rows, name) == [i \in 1..Len(rows) |-> rows[i][name]]

\* the monthly_summary frame and the monthly_avg values of
\* display_average_income_expense; astype(int) raises when a mean is missing
display_average_income_expense(df) ==
    LET income_with_bonus_df == SelectSeq(df, IsSalaryOrBonus)
        income_without_bonus_df == SelectSeq(df, IsSalary)
        expense_df == SelectSeq(df, IsNotSalaryOrBonus)
        yms == SortPeriods(Range(YearMonths(income_with_bonus_df))
                           \cup Range(YearMonths(income_without_bonus_df))
                           \cup Range(YearMonths(expense_df)))
        row(ym) ==
            LET income_with_bonus == MonthSum(income_with_bonus_df, ym)
                income_without_bonus == MonthSum(income_without_bonus_df, ym)
                expense == MonthSum(expense_df, ym)
            IN  [ year_month |-> ym,
                  income_with_bonus |-> income_with_bonus,
                  income_without_bonus |-> income_without_bonus,
                  expense |-> expense,
                  balance_with_bonus |-> AddCell(income_with_bonus, expense),
                  balance_without_bonus |-> AddCell(income_without_bonus, expense) ]
        summary == [i \in 1..Len(yms) |-> row(yms[i])]
        monthly_avg ==
            [ c \in { "income_with_bonus", "income_without_bonus", "expense",
                      "balance_with_bonus", "balance_without_bonus" } |->
                RoundedMean(Column(summary, c)) ]
    IN  [ error |-> IF \E c \in DOMAIN monthly_avg : monthly_avg[c].k = "nan"
                    THEN "IntCastingNaNError" ELSE "none",
          monthly_summary |-> summary,
          monthly_avg |-> monthly_avg ]

\* the index labels of a frame and the row of a label
Labels(df) == { df[i].idx : i \in 1..Len(df) }
RowAt(df, l) == df[CHOOSE j \in 1..Len(df) : df[j].idx = l]

\* boolean Series indexed like the whole frame
SalaryOrBonusSeries(df) == [l \in Labels(df) |-> IsSalaryOrBonus(RowAt(df, l))]
NotSalaryOrBonusSeries(df) == [l \in Labels(df) |-> IsNotSalaryOrBonus(RowAt(df, l))]
SalarySeries(df) == [l \in Labels(df) |-> IsSalary(RowAt(df, l))]

\* x[mask].sum(): the rows of the group x at whose index label the boolean
\* Series mask, aligned on the labels, is True
MaskedSum(x, mask) == LET Sel(r) == mask[r.idx] IN SumAmount(SelectSeq(x, Sel))

\* the income of one month of plot_monthly_balance_trend
TrendIncome(x, df, include_bonus) ==
    IF include_bonus THEN MaskedSum(x, SalaryOrBonusSeries(df))
    ELSE MaskedSum(x, SalarySeries(df))

\* the expense as the complement of the income of the mode
TrendExpenseComplement(x, df, include_bonus) ==
    IF include_bonus THEN MaskedSum(x, NotSalaryOrBonusSeries(df))
    ELSE MaskedSum(x, [l \in Labels(df) |-> ~IsSalary(RowAt(df, l))])

\* the expense of one month of plot_monthly_balance_trend
TrendExpense(x, df, include_bonus) == MaskedSum(x, NotSalaryOrBonusSeries(df))

\* the balance with the expense subtracted
TrendBalanceSubtracts(total_income, total_expense) == total_income - total_expense

\* monthly_summary['balance']
TrendBalance(total_income, total_expense) == total_income + total_expense

\* sort_values on the month column: stable insertion sort
RECURSIVE InsertByMonth(_, _)
InsertByMonth(sorted, r) ==
    IF sorted = <<>> THEN <<r>>
    ELSE IF PeriodLess(r.year_month, Head(sorted).year_month)
         THEN <<r>> \o sorted
         ELSE <<Head(sorted)>> \o InsertByMonth(Tail(sorted), r)

RECURSIVE SortByMonth(_)
SortByMonth(rows) ==
    IF rows = <<>> THEN <<>>
    ELSE InsertByMonth(SortByMonth(SubSeq(rows, 1, Len(rows) - 1)), rows[Len(rows)])

\* the monthly_summary frame of plot_monthly_balance_trend
plot_monthly_balance_trend(df, include_bonus) ==
    LET yms == YearMonths(df)
        row(ym) ==
            LET x == Group(df, ym)
                total_income == TrendIncome(x, df, include_bonus)
                total_expense == TrendExpense(x, df, include_bonus)
            IN  [ year_month |-> ym,
                  total_income |-> total_income,
                  total_expense |-> total_expense,
                  balance |-> TrendBalance(total_income, total_expense) ]
    IN  SortByMonth([i \in 1..Len(yms) |-> row(yms[i])])

\* the missing date NaT
NaT == <<0, 0, 0>>

\* get_kakeibo_data_range: the smallest and the largest date of the frame,
\* NaT for both when the frame has no rows
get_kakeibo_data_range(df) ==
    IF df = <<>> THEN [oldest_date |-> NaT, newest_date |-> NaT]
    ELSE LET dates == { df[i].date : i \in 1..Len(df) }
         IN  [ oldest_date |-> CHOOSE d \in dates : \A e \in dates : ~DateLess(e, d),
               newest_date |-> CHOOSE d \in dates : \A e \in dates : ~DateLess(d, e) ]

\* display_kakeibo_data_range: strftime of NaT raises
DisplayKakeiboDataRangeError(range) ==
    IF range.oldest_date = NaT \/ range.newest_date = NaT THEN "ValueError" ELSE "none"

----------------------------------------------------------------------------
(* fixed_variable_cost.py *)

\* the cost flags with every row that is not a fixed cost a variable cost
FvcFlagsVariableIsNotFixed(row) ==
    LET is_income == StrContainsNaFalse(row.major_category, INCOME_MARKER)
        is_fixed_cost == row.major_category \in FIXED_COST_CATEGORIES
    IN  [ is_income |-> is_income,
          is_fixed_cost |-> is_fixed_cost,
          is_variable_cost |-> ~is_fixed_cost ]

\* the income and cost flags of preprocess_kakeibo_data for one raw row
FvcFlags(row) ==
    LET is_income == StrContainsNaFalse(row.major_category, INCOME_MARKER)
        is_fixed_cost == row.major_category \in FIXED_COST_CATEGORIES
    IN  [ is_income |-> is_income,
          is_fixed_cost |-> is_fixed_cost,
          is_variable_cost |-> ~is_income /\ ~is_fixed_cost ]

fvc_preprocess_kakeibo_data(kakeibo_df) ==
    LET df == [i \in 1..Len(kakeibo_df) |->
                  WithFlags(kakeibo_df[i], i - 1, FvcFlags(kakeibo_df[i]))]
    IN  SelectSeq(SelectSeq(df, IsTargetRow), IsNotTransferRow)

IsNotIncome(r) == ~r.flags.is_income
IsFixedCost(r) == r.flags.is_fixed_cost
IsVariableCost(r) == r.flags.is_variable_cost

\* -df.groupby('year_month')['amount'].sum() as a column of the frame built
\* from both Series: a month that is not a key of this Series is missing
NegatedMonthSum(df, ym) ==
    IF Group(df, ym) = <<>> THEN NaNCell ELSE Num(-SumAmount(Group(df, ym)))

\* monthly_summary['total_cost']
TotalCost(fixed_cost, variable_cost) == AddCell(fixed_cost, variable_cost)

\* one row of the summary; away holds the ratio cells <<row, column>> whose
\* halfway value the float rounding takes away from zero
CostRow(fixed_cost_df, variable_cost_df, ym, i, away) ==
    LET fixed_cost == NegatedMonthSum(fixed_cost_df, ym)
        variable_cost == NegatedMonthSum(variable_cost_df, ym)
        total_cost == TotalCost(fixed_cost, variable_cost)
    IN  [ year_month |-> ym,
          fixed_cost |-> fixed_cost,
          variable_cost |-> variable_cost,
          total_cost |-> total_cost,
          fixed_cost_ratio |->
              RatioCell(fixed_cost, total_cost, <<i, "fixed_cost_ratio">> \in away),
          variable_cost_ratio |->
              RatioCell(variable_cost, total_cost, <<i, "variable_cost_ratio">> \in away) ]

summarize_monthly_fixed_variable_costs(df, away) ==
    LET expense_df == SelectSeq(df, IsNotIncome)
        fixed_cost_df == SelectSeq(expense_df, IsFixedCost)
        variable_cost_df == SelectSeq(expense_df, IsVariableCost)
        \* the index of the frame is the sorted union of both Series' keys
        yms == SortPeriods(Range(YearMonths(fixed_cost_df))
                           \cup Range(YearMonths(variable_cost_df)))
    IN  [i \in 1..Len(yms) |-> CostRow(fixed_cost_df, variable_cost_df, yms[i], i, away)]

\* the ratio cells of the summary whose exact value lies halfway between two tenths
CostTieCells(df) ==
    LET s == summarize_monthly_fixed_variable_costs(df, {})
        tie(a, b) == a.k = "num" /\ b.k = "num" /\ IsTie(a.v, b.v)
    IN  { <<i, "fixed_cost_ratio">> : i \in { j \in 1..Len(s) : tie(s[j].fixed_cost, s[j].total_cost) } }
        \cup
        { <<i, "variable_cost_ratio">> : i \in { j \in 1..Len(s) : tie(s[j].variable_cost, s[j].total_cost) } }

\* round(part / total_cost * 100, 1) if total_cost > 0 else 0
OverallRatio(part, total_cost, tie_away) ==
    IF total_cost > 0 THEN RoundRatio(part, total_cost, tie_away) ELSE 0

\* the values display_cost_summaries computes; monthly_avg.astype(int) raises
\* when a column mean is missing, before the ratios are computed
display_cost_summaries(summary, away) ==
    LET fixed == [i \in 1..Len(summary) |-> summary[i].fixed_cost]
        variable == [i \in 1..Len(summary) |-> summary[i].variable_cost]
        total == [i \in 1..Len(summary) |-> summary[i].total_cost]
        total_fixed_cost == SumCells(fixed)
        total_variable_cost == SumCells(variable)
        total_cost == total_fixed_cost + total_variable_cost
    IN  IF MeanIsNaN(fixed) \/ MeanIsNaN(variable) \/ MeanIsNaN(total)
        THEN [ error |-> "IntCastingNaNError",
               total_fixed_cost |-> total_fixed_cost,
               total_variable_cost |-> total_variable_cost,
               total_cost |-> total_cost,
               fixed_cost_ratio |-> 0,
               variable_cost_ratio |-> 0 ]
        ELSE [ error |-> "none",
               total_fixed_cost |-> total_fixed_cost,
               total_variable_cost |-> total_variable_cost,
               total_cost |-> total_cost,
               fixed_cost_ratio |->
                   OverallRatio(total_fixed_cost, total_cost, "fixed_cost_ratio" \in away),
               variable_cost_ratio |->
                   OverallRatio(total_variable_cost, total_cost, "variable_cost_ratio" \in away) ]

\* the overall ratios whose exact value lies halfway between two tenths
OverallTieCells(summary) ==
    LET d == display_cost_summaries(summary, {})
    IN  { c \in {"fixed_cost_ratio", "variable_cost_ratio"} :
            /\ d.error = "none" /\ d.total_cost > 0
            /\ IsTie(IF c = "fixed_cost_ratio" THEN d.total_fixed_cost
                     ELSE d.total_variable_cost, d.total_cost) }

----------------------------------------------------------------------------
(* food_analysis.py *)

\* the food flag of preprocess_kakeibo_data for one raw row
FoodFlags(row) ==
    [ is_food |-> StrContainsNaFalse(row.major_category, FOOD_MARKER) ]

food_preprocess_kakeibo_data(kakeibo_df) ==
    LET df == [i \in 1..Len(kakeibo_df) |->
                  WithFlags(kakeibo_df[i], i - 1, FoodFlags(kakeibo_df[i]))]
    IN  SelectSeq(SelectSeq(df, IsTargetRow), IsNotTransferRow)

IsFood(r) == r.flags.is_food
HasMinorCategory(r) == r.minor_category # NaN

\* the cell of a month and a category with the sign of the amounts kept
FoodCellKeepsSign(grouped, ym, c) ==
    LET InCell(r) == ToPeriodM(r.date) = ym /\ r.minor_category = c
    IN  SumAmount(SelectSeq(grouped, InCell))

\* the cell of a month and a category: the negated sum of the group, 0 from
\* fillna where the group does not exist
FoodCell(grouped, ym, c) ==
    LET InCell(r) == ToPeriodM(r.date) = ym /\ r.minor_category = c
    IN  -SumAmount(SelectSeq(grouped, InCell))

\* month rows and minor_category columns of the pivot, each cell the negated
\* sum of its group, 0 where the group does not exist; groupby drops the rows
\* whose minor_category is missing
summarize_monthly_food_data(df) ==
    LET food_rows == SelectSeq(df, IsFood)
        grouped == SelectSeq(food_rows, HasMinorCategory)
        yms == YearMonths(grouped)
        food_categories == { grouped[i].minor_category : i \in 1..Len(grouped) }
        cell(ym, c) == FoodCell(grouped, ym, c)
        RECURSIVE RowSum(_, _)
        RowSum(cells, cs) ==
            IF cs = {} THEN 0
            ELSE LET c == CHOOSE x \in cs : TRUE
                 IN  cells[c] + RowSum(cells, cs \ {c})
        row(ym) ==
            LET cells == [c \in food_categories |-> cell(ym, c)]
            IN  [ year_month |-> ym,
                  cells |-> cells,
                  total_food |-> RowSum(cells, food_categories) ]
    IN  [i \in 1..Len(yms) |-> row(yms[i])]

\* the loop of get_weekday_count_in_month with the last day left out
RECURSIVE CountWeekdaysStopsBeforeEnd(_, _)
CountWeekdaysStopsBeforeEnd(current_date, end_date) ==
    IF current_date < end_date
    THEN (IF Weekday(current_date) < 5 THEN 1 ELSE 0)
         + CountWeekdaysStopsBeforeEnd(current_date + 1, end_date)
    ELSE 0

\* while current_date <= end_date: count the day when weekday() < 5, go on
\* to the next day
RECURSIVE CountWeekdays(_, _)
CountWeekdays(current_date, end_date) ==
    IF current_date <= end_date
    THEN (IF Weekday(current_date) < 5 THEN 1 ELSE 0)
         + CountWeekdays(current_date + 1, end_date)
    ELSE 0

get_weekday_count_in_month(year, month) ==
    LET start_date == Datetime(year, month, 1)
        end_date == IF month = 12 THEN Datetime(year + 1, 1, 1) - 1
                    ELSE Datetime(year, month + 1, 1) - 1
    IN  CountWeekdays(start_date, end_date)

\* df['is_food'] & (df['minor_category'] == WORK_FOOD_CATEGORY)
IsWorkFood(r) == r.flags.is_food /\ r.minor_category = WORK_FOOD_CATEGORY

\* the daily average cut off instead of rounded
DailyAverageTruncates(amount, weekday_count) == amount \div weekday_count

\* (amount / weekday_count).round(0)
DailyAverage(amount, weekday_count) == RoundHalfEven(amount, weekday_count)

\* the rows of calculate_workday_food_average, one per month of the
\* workplace-meal rows
calculate_workday_food_average(df) ==
    LET work_food_df == SelectSeq(df, IsWorkFood)
        yms == YearMonths(work_food_df)
        row(ym) ==
            LET amount == -SumAmount(Group(work_food_df, ym))
                weekday_count == get_weekday_count_in_month(ym[1], ym[2])
            IN  [ year_month |-> ym,
                  amount |-> amount,
                  weekday_count |-> weekday_count,
                  daily_average |-> DailyAverage(amount, weekday_count) ]
    IN  [i \in 1..Len(yms) |-> row(yms[i])]

\* what the assignment of the weekday_count column can do when there is no
\* workplace-meal row: apply(axis=1) of a frame without rows returns a frame
\* and not a column, which the assignment rejects or, depending on the
\* pandas in use, takes
WorkdayAverageOutcomes(df) ==
    IF SelectSeq(df, IsWorkFood) = <<>> THEN {"ValueError", "none"} ELSE {"none"}

----------------------------------------------------------------------------
(* Raw tables *)

\* the raw rows built from target/transfer flag pairs, dates and
\* <<major_category, minor_category, amount>> entries
RawRows(flag_pairs, dates, entries) ==
    { [ is_target |-> f[1], is_transfer |-> f[2], date |-> d, amount |-> e[3],
        major_category |-> e[1], minor_category |-> e[2] ] :
      f \in flag_pairs, d \in dates, e \in entries }

\* the tables of at most n rows
Tables(rows, n) == UNION { [1..k -> rows] : k \in 0..n }

\* <<is_target, is_transfer>>
AllFlagPairs == { <<1, 0>>, <<0, 0>>, <<1, 1>>, <<0, 1>> }

SALARY == <<"kyuu", "yo">>
ONE_TIME_INCOME == <<"ichi", "ji", "sho", "toku">>
SALARY_AND_ONE_TIME == <<"kyuu", "yo", "nakaguro", "ichi", "ji", "sho", "toku">>
SIDE_BUSINESS == <<"ji", "gyou", "nakaguro", "fuku", "gyou">>
INCOME == <<"shuu", "nyuu">>
FOOD == <<"shoku", "hi">>
GROCERIES == <<"shoku", "ryou", "hin">>
HOUSING == <<"juu", "taku">>
RENT == <<"ya", "chin">>
HOUSING_LOAN == <<"juu", "taku", "ro", "-", "n">>
DAILY_GOODS == <<"nichi", "you", "hin">>
INSURANCE == <<"ho", "ken">>

\* the rows of the tables every page reads
Rows ==
    RawRows(AllFlagPairs,
            { <<2025, 1, 10>>, <<2025, 2, 10>> },
            { <<INCOME, SALARY, 300000>>,
              <<HOUSING, RENT, -50000>>,
              <<FOOD, WORK_FOOD_CATEGORY, -50000>> })

\* the rows of the classification: every major_category with every minor_category
ClassifyRows ==
    RawRows({ <<1, 0>>, <<0, 0>> },
            { <<2025, 1, 10>> },
            { <<major, minor, -50000>> :
                major \in { INCOME, INCOME \o SIDE_BUSINESS, FOOD, HOUSING,
                            HOUSING_LOAN, NaN },
                minor \in { SALARY, ONE_TIME_INCOME, SALARY_AND_ONE_TIME,
                            SIDE_BUSINESS, NaN } })

\* the rows of the balance tables: the kinds of income and an expense
BalanceRows ==
    RawRows({ <<1, 0>> },
            { <<2025, 1, 10>>, <<2025, 2, 10>> },
            { <<INCOME, SALARY, 300000>>,
              <<INCOME, ONE_TIME_INCOME, 100000>>,
              <<INCOME, SIDE_BUSINESS, 20000>>,
              <<INCOME, SALARY_AND_ONE_TIME, 7000>>,
              <<FOOD, GROCERIES, -50000>> })

\* the rows of the cost tables: fixed and variable costs, refunds and zero
\* amounts among them, and an income row
CostRows ==
    RawRows({ <<1, 0>>, <<0, 0>> },
            { <<2025, 1, 10>>, <<2025, 2, 10>> },
            { <<HOUSING, RENT, -1>>,
              <<INSURANCE, NaN, 0>>,
              <<FOOD, GROCERIES, -15>>,
              <<FOOD, GROCERIES, -2>>,
              <<FOOD, GROCERIES, 1>>,
              <<DAILY_GOODS, NaN, 0>>,
              <<INCOME, SALARY, 300000>> })

\* the rows of the ordering tables, the later months first
OrderRows ==
    RawRows({ <<1, 0>> },
            { <<2025, 2, 10>>, <<2025, 1, 10>>, <<2024, 12, 5>> },
            { <<INCOME, SALARY, 300000>>,
              <<HOUSING, RENT, -50000>>,
              <<FOOD, WORK_FOOD_CATEGORY, -1000>> })

\* the rows of the food tables: workplace meals, other food, food without a
\* minor_category, a workplace-meal label on a row that is not food, a salary
FoodRows ==
    RawRows({ <<1, 0>> },
            { <<2025, 1, 10>>, <<2024, 2, 10>>, <<2025, 2, 10>> },
            { <<FOOD, WORK_FOOD_CATEGORY, -50000>>,
              <<FOOD, WORK_FOOD_CATEGORY, -30>>,
              <<FOOD, GROCERIES, -3000>>,
              <<FOOD, NaN, -700>>,
              <<DAILY_GOODS, WORK_FOOD_CATEGORY, -100>>,
              <<INCOME, SALARY, 300000>> })

\* the rows of the schema tables: a date cell that is a day of the calendar
\* and one that is not
SchemaRows ==
    RawRows({ <<1, 0>> },
            { <<2025, 1, 10>>, <<2025, 2, 30>> },
            { <<INCOME, SALARY, 300000>>,
              <<FOOD, WORK_FOOD_CATEGORY, -50000>> })

\* the columns of an export
AllColumns == Range(REQUIRED_COLUMNS)

\* the column sets of the schema tables: every column, or all but one
SchemaColumns == { AllColumns } \cup { AllColumns \ {c} : c \in AllColumns }

\* an object of the bucket: its key, whether it opens and decodes, the
\* columns and the rows of its content
CsvFile(key, readable, columns, rows) ==
    [ key |-> key, readable |-> readable, columns |-> columns, rows |-> rows ]

\* object keys under the prefix; two of them end in the same file name
KEYS ==
    { <<"year=2025", "month=1", "a.csv">>,
      <<"year=2025", "month=2", "a.csv">>,
      <<"year=2025", "month=2", "b.csv">> }

\* the listings of one readable object holding a table
OneFileListings(tables, column_sets) ==
    { << CsvFile(<<"year=2025", "month=1", "a.csv">>, TRUE, columns, t) >> :
        t \in tables, columns \in column_sets }

\* the contents of the objects of the loader listings
LoaderTables ==
    LET salary == [ is_target |-> 1, is_transfer |-> 0, date |-> <<2025, 1, 10>>,
                    amount |-> 300000, major_category |-> INCOME,
                    minor_category |-> SALARY ]
        meal == [ is_target |-> 1, is_transfer |-> 0, date |-> <<2025, 1, 10>>,
                  amount |-> -50000, major_category |-> FOOD,
                  minor_category |-> WORK_FOOD_CATEGORY ]
    IN  { <<>>, <<salary>>, <<meal>>, <<salary, meal>> }

\* the listings of at most n objects with different keys, each readable or not
LoaderListings(n) ==
    LET files == { CsvFile(key, readable, AllColumns, t) :
                     key \in KEYS, readable \in BOOLEAN, t \in LoaderTables }
    IN  { l \in UNION { [1..k -> files] : k \in 0..n } :
            \A i, j \in 1..Len(l) : l[i].key = l[j].key => i = j }

----------------------------------------------------------------------------
(* file_upload.py *)

\* datetime.max as a day number
DatetimeMax == Datetime(9999, 12, 31)

\* the year and the month of a day number
YearMonthOf(ordinal) ==
    LET year == CHOOSE y \in (ordinal \div 366)..(ordinal \div 365 + 1) :
                    Datetime(y, 1, 1) <= ordinal /\ ordinal <= Datetime(y, 12, 31)
        month == CHOOSE m \in 1..12 :
                     /\ Datetime(year, m, 1) <= ordinal
                     /\ ordinal <= Datetime(year, m, DaysInMonth(year, m))
    IN  <<year, month>>

\* a validate_file_name that leaves out the check of the order of the dates
validate_file_name_without_order(file_name) ==
    IF ~file_name.matches
    THEN [is_valid |-> FALSE, message |-> "wrong format"]
    ELSE IF ~IsCalendarDate(file_name.start_date) \/ ~IsCalendarDate(file_name.end_date)
    THEN [is_valid |-> FALSE, message |-> "invalid date"]
    ELSE [is_valid |-> TRUE, start_date |-> file_name.start_date,
          end_date |-> file_name.end_date]

\* validate_file_name: a file name is whether it matches FILE_PATTERN and the
\* digits of its two dates <<year, month, day>>; strptime raises ValueError
\* on digits that name no day of the calendar
validate_file_name(file_name) ==
    IF ~file_name.matches
    THEN [is_valid |-> FALSE, message |-> "wrong format"]
    ELSE IF ~IsCalendarDate(file_name.start_date) \/ ~IsCalendarDate(file_name.end_date)
    THEN [is_valid |-> FALSE, message |-> "invalid date"]
    ELSE IF ~DateLess(file_name.start_date, file_name.end_date)
    THEN [is_valid |-> FALSE, message |-> "start not before end"]
    ELSE [is_valid |-> TRUE, start_date |-> file_name.start_date,
          end_date |-> file_name.end_date]

\* determine_s3_key: the year and the month of the day 32 days after the
\* start date, under the prefix; the addition raises OverflowError beyond
\* datetime.max
determine_s3_key(start_date) ==
    LET next_month == Datetime(start_date[1], start_date[2], start_date[3]) + 32
    IN  IF next_month > DatetimeMax THEN [error |-> "OverflowError"]
        ELSE [error |-> "none",
              s3_key |-> <<"S3_PREFIX">> \o YearMonthOf(next_month)]

\* s3_utils.upload_to_s3(bucket, file_content, file_name, key): it reports
\* success or failure
upload_to_s3(file_name, key) == { "uploaded", "upload failed" }

----------------------------------------------------------------------------
(* main.py *)

\* the loop over the found paths: pd.read_csv of each object, a file that
\* raises is left out
RECURSIVE ReadAllData(_)
ReadAllData(file_paths_found) ==
    IF file_paths_found = <<>> THEN <<>>
    ELSE IF Head(file_paths_found).readable
         THEN << DataFrame(Head(file_paths_found).columns, Head(file_paths_found).rows) >>
              \o ReadAllData(Tail(file_paths_found))
         ELSE ReadAllData(Tail(file_paths_found))

\* pd.to_datetime(..., errors='coerce') of a cell: a cell that is not a date
\* becomes NaT
ToDatetimeCoerce(cell) == IF IsCalendarDate(cell) THEN cell ELSE NaT

\* load_all_data_from_s3: the combined frame and the found paths, or the
\* exception the function raises
load_all_data_from_s3(files) ==
    LET all_data == ReadAllData(files)
        combined_df == Concat(all_data)
        paths == [i \in 1..Len(files) |-> files[i].key]
    IN  IF files = <<>>
        THEN [error |-> "none", all_df |-> DataFrame({}, <<>>), found_files |-> <<>>]
        ELSE IF all_data = <<>>
        THEN [error |-> "none", all_df |-> DataFrame({}, <<>>), found_files |-> paths]
        ELSE IF "hizuke" \notin combined_df.columns
        THEN [error |-> "KeyError"]
        ELSE [error |-> "none",
              all_df |-> DataFrame(combined_df.columns,
                            [i \in 1..Len(combined_df.rows) |->
                                [combined_df.rows[i] EXCEPT
                                    !.date = ToDatetimeCoerce(@)]]),
              found_files |-> paths]

\* the files of the upload page: the name (whether it matches FILE_PATTERN,
\* the digits of its two dates), whether the content decodes as shift-jis
\* and parses, and the columns of the content
UploadedFiles ==
    LET years == (FirstUploadYear..LastUploadYear) \cup {9999}
        start_dates == years \X (1..12) \X (1..31)
        end_dates == { <<2024, 6, 15>>, <<2025, 2, 30>>, <<9999, 12, 31>> }
    IN  { [ is_none |-> FALSE,
            name |-> [matches |-> m, start_date |-> s, end_date |-> e],
            decodable |-> d, columns |-> c ] :
            m \in BOOLEAN, s \in start_dates, e \in end_dates, d \in BOOLEAN,
            c \in { AllColumns, AllColumns \ {"memo"} } }


----------------------------------------------------------------------------
(* The pages *)

Unset == [done |-> FALSE]

balance_vars ==
    <<balance_df, total_income_expense, average_income_expense, monthly_balance>>
fvc_vars == <<fvc_df, monthly_cost_summary, cost_summaries>>
food_vars == <<food_df, monthly_food_summary, workday_food_average>>
weekday_vars == <<weekday_args, weekday_result>>
main_vars == <<all_df, found_files, file_count>>
upload_vars == <<uploaded_file, upload_pc, upload_message, s3_key, upload_log>>
rerun_vars == <<cache_hit, reruns, previous_run>>

\* no page has run yet: nothing is read and nothing is computed
PagesInit(listings) ==
    /\ csv_files \in listings
    /\ kakeibo_data = None
    /\ page = "home"
    /\ error = "none"
    /\ warning = "none"
    /\ data_range = Unset
    /\ balance_df = [done |-> FALSE, rows |-> <<>>]
    /\ total_income_expense = Unset
    /\ average_income_expense = Unset
    /\ monthly_balance = [done |-> FALSE, rows |-> <<>>]
    /\ fvc_df = [done |-> FALSE, rows |-> <<>>]
    /\ monthly_cost_summary = [done |-> FALSE, rows |-> <<>>]
    /\ cost_summaries = Unset
    /\ food_df = [done |-> FALSE, rows |-> <<>>]
    /\ monthly_food_summary = [done |-> FALSE, rows |-> <<>>]
    /\ workday_food_average = [done |-> FALSE, rows |-> <<>>]
    /\ weekday_result = Unset
    /\ all_df = Unset
    /\ found_files = <<>>
    /\ file_count = Unset
    /\ cache = [f \in CachedFunctions |-> NoEntry]
    /\ cache_hit = FALSE
    /\ reruns = 0
    /\ previous_run = Unset

\* st.file_uploader returns None: nothing was chosen
NoFile == [is_none |-> TRUE]

\* the upload page when its script starts with the file
UploadInit(files) ==
    /\ uploaded_file \in files
    /\ upload_pc = "start"
    /\ upload_message = "none"
    /\ s3_key = Unset
    /\ upload_log = <<>>

InitFrom(listings) ==
    PagesInit(listings) /\ weekday_args = <<2025, 1>> /\ UploadInit({NoFile})

Init == InitFrom(OneFileListings(Tables(Rows, MaxRows), {AllColumns}))
InitClassify == InitFrom(OneFileListings(Tables(ClassifyRows, MaxClassifyRows), {AllColumns}))
InitBalance == InitFrom(OneFileListings(Tables(BalanceRows, MaxBalanceRows), {AllColumns}))
InitCost == InitFrom(OneFileListings(Tables(CostRows, MaxRows), {AllColumns}))
InitOrder == InitFrom(OneFileListings(Tables(OrderRows, MaxOrderRows), {AllColumns}))
InitFood == InitFrom(OneFileListings(Tables(FoodRows, MaxFoodRows), {AllColumns}))
InitSchema == InitFrom(OneFileListings(Tables(SchemaRows, MaxSchemaRows), SchemaColumns))
InitLoader == InitFrom(LoaderListings(MaxFiles))

\* the script of the page runs and no exception or early return has ended it
Running(p) == page = p /\ error = "none" /\ warning = "none"

\* a column of the raw table exists under its normalized name
HasColumn(c) == c \in Rename(kakeibo_data.columns)

\* balance.main: the table is read and preprocessed
PreprocessData ==
    /\ page = "home"
    /\ page' = "balance"
    /\ LET data == cached_read_csv_files_from_s3(cache["balance"], csv_files)
           e == PreprocessError(data, << "is_target", "is_transfer",
                                         "major_category", "minor_category" >>,
                                {"major_category", "minor_category"})
       IN  /\ kakeibo_data' = data
           /\ cache_hit' = IsHit(cache["balance"])
           /\ cache' = [cache EXCEPT !["balance"] = CacheEntry(data)]
           /\ error' = e
           /\ balance_df' = IF e = "none"
                            THEN [done |-> TRUE, rows |-> preprocess_data(data.rows)]
                            ELSE balance_df
    /\ UNCHANGED <<csv_files, warning, data_range, total_income_expense,
                   average_income_expense, monthly_balance, fvc_vars, food_vars,
                   weekday_vars, main_vars, upload_vars, reruns, previous_run>>

\* balance.display_kakeibo_data_range shows the period of the data
DisplayKakeiboDataRange ==
    /\ Running("balance")
    /\ balance_df.done
    /\ ~data_range.done
    /\ LET range == get_kakeibo_data_range(balance_df.rows)
           e == DisplayKakeiboDataRangeError(range)
       IN  /\ error' = e
           /\ data_range' = IF e = "none" THEN [done |-> TRUE, value |-> range]
                            ELSE data_range
    /\ UNCHANGED <<csv_files, kakeibo_data, page, warning, balance_vars, fvc_vars,
                   food_vars, weekday_vars, main_vars, upload_vars, cache, rerun_vars>>

\* balance.display_total_income_expense computes the totals
CalculateTotalIncomeExpense ==
    /\ Running("balance")
    /\ data_range.done
    /\ ~total_income_expense.done
    /\ IF HasColumn("amount")
       THEN /\ total_income_expense' =
                   [ done |-> TRUE,
                     value |-> calculate_total_income_expense(balance_df.rows) ]
            /\ error' = error
       ELSE /\ error' = "KeyError"
            /\ total_income_expense' = total_income_expense
    /\ UNCHANGED <<csv_files, kakeibo_data, page, warning, data_range, balance_df,
                   average_income_expense, monthly_balance, fvc_vars, food_vars,
                   weekday_vars, main_vars, upload_vars, cache, rerun_vars>>

\* balance.display_average_income_expense computes the monthly averages
DisplayAverageIncomeExpense ==
    /\ Running("balance")
    /\ total_income_expense.done
    /\ ~average_income_expense.done
    /\ LET value == display_average_income_expense(balance_df.rows)
       IN  /\ average_income_expense' = [done |-> TRUE, value |-> value]
           /\ error' = value.error
    /\ UNCHANGED <<csv_files, kakeibo_data, page, warning, data_range, balance_df,
                   total_income_expense, monthly_balance, fvc_vars, food_vars,
                   weekday_vars, main_vars, upload_vars, cache, rerun_vars>>

\* balance.main plots the trend with the bonus and then without it
PlotMonthlyBalanceTrend ==
    /\ Running("balance")
    /\ average_income_expense.done
    /\ IF monthly_balance.done THEN monthly_balance.include_bonus ELSE TRUE
    /\ \E include_bonus \in BOOLEAN :
          /\ include_bonus = ~monthly_balance.done
          /\ monthly_balance' =
                [ done |-> TRUE, include_bonus |-> include_bonus,
                  rows |-> plot_monthly_balance_trend(balance_df.rows, include_bonus) ]
    /\ UNCHANGED <<csv_files, kakeibo_data, page, error, warning, data_range,
                   balance_df, total_income_expense, average_income_expense,
                   fvc_vars, food_vars, weekday_vars, main_vars, upload_vars, cache, rerun_vars>>

\* fixed_variable_cost.main: the table is read and preprocessed
FvcPreprocessKakeiboData ==
    /\ page = "home"
    /\ page' = "fvc"
    /\ LET data == cached_read_csv_files_from_s3(cache["s3_utils"], csv_files)
           e == PreprocessError(data, << "is_target", "is_transfer", "major_category" >>,
                                {"major_category"})
       IN  /\ kakeibo_data' = data
           /\ cache_hit' = IsHit(cache["s3_utils"])
           /\ cache' = [cache EXCEPT !["s3_utils"] = CacheEntry(data)]
           /\ error' = e
           /\ fvc_df' = IF e = "none"
                        THEN [done |-> TRUE, rows |-> fvc_preprocess_kakeibo_data(data.rows)]
                        ELSE fvc_df
    /\ UNCHANGED <<csv_files, warning, data_range, balance_vars,
                   monthly_cost_summary, cost_summaries, food_vars, weekday_vars, main_vars, upload_vars, reruns, previous_run>>

SummarizeMonthlyFixedVariableCosts ==
    /\ Running("fvc")
    /\ fvc_df.done
    /\ ~monthly_cost_summary.done
    /\ IF HasColumn("amount")
       THEN /\ \E away \in SUBSET CostTieCells(fvc_df.rows) :
                  monthly_cost_summary' =
                      [ done |-> TRUE,
                        rows |-> summarize_monthly_fixed_variable_costs(fvc_df.rows, away) ]
            /\ error' = error
       ELSE /\ error' = "KeyError"
            /\ monthly_cost_summary' = monthly_cost_summary
    /\ UNCHANGED <<csv_files, kakeibo_data, page, warning, data_range, balance_vars,
                   fvc_df, cost_summaries, food_vars, weekday_vars, main_vars, upload_vars, cache, rerun_vars>>

\* fixed_variable_cost.display_kakeibo_data_range shows the period of the data
FvcDisplayKakeiboDataRange ==
    /\ Running("fvc")
    /\ monthly_cost_summary.done
    /\ ~data_range.done
    /\ LET range == get_kakeibo_data_range(fvc_df.rows)
           e == DisplayKakeiboDataRangeError(range)
       IN  /\ error' = e
           /\ data_range' = IF e = "none" THEN [done |-> TRUE, value |-> range]
                            ELSE data_range
    /\ UNCHANGED <<csv_files, kakeibo_data, page, warning, balance_vars, fvc_vars,
                   food_vars, weekday_vars, main_vars, upload_vars, cache, rerun_vars>>

DisplayCostSummaries ==
    /\ Running("fvc")
    /\ data_range.done
    /\ ~cost_summaries.done
    /\ \E away \in SUBSET OverallTieCells(monthly_cost_summary.rows) :
          LET value == display_cost_summaries(monthly_cost_summary.rows, away)
          IN  /\ cost_summaries' = [done |-> TRUE, value |-> value]
              /\ error' = value.error
    /\ UNCHANGED <<csv_files, kakeibo_data, page, warning, data_range, balance_vars,
                   fvc_df, monthly_cost_summary, food_vars, weekday_vars, main_vars, upload_vars, cache, rerun_vars>>

\* food_analysis.main: the table is read and preprocessed; without a food row
\* the page shows a warning and returns
FoodPreprocessKakeiboData ==
    /\ page = "home"
    /\ page' = "food"
    /\ LET data == cached_read_csv_files_from_s3(cache["s3_utils"], csv_files)
           e == PreprocessError(data, << "is_target", "is_transfer", "major_category" >>,
                                {"major_category"})
           df == food_preprocess_kakeibo_data(data.rows)
       IN  /\ kakeibo_data' = data
           /\ cache_hit' = IsHit(cache["s3_utils"])
           /\ cache' = [cache EXCEPT !["s3_utils"] = CacheEntry(data)]
           /\ error' = e
           /\ food_df' = IF e = "none" THEN [done |-> TRUE, rows |-> df] ELSE food_df
           /\ warning' = IF e = "none" /\ SelectSeq(df, IsFood) = <<>>
                         THEN "no food data" ELSE "none"
    /\ UNCHANGED <<csv_files, data_range, balance_vars, fvc_vars,
                   monthly_food_summary, workday_food_average, weekday_vars, main_vars, upload_vars, reruns, previous_run>>

SummarizeMonthlyFoodData ==
    /\ Running("food")
    /\ food_df.done
    /\ ~monthly_food_summary.done
    /\ IF HasColumn("minor_category") /\ HasColumn("amount")
       THEN /\ monthly_food_summary' =
                   [done |-> TRUE, rows |-> summarize_monthly_food_data(food_df.rows)]
            /\ error' = error
       ELSE /\ error' = "KeyError"
            /\ monthly_food_summary' = monthly_food_summary
    /\ UNCHANGED <<csv_files, kakeibo_data, page, warning, data_range, balance_vars,
                   fvc_vars, food_df, workday_food_average, weekday_vars, main_vars, upload_vars, cache, rerun_vars>>

CalculateWorkdayFoodAverage ==
    /\ Running("food")
    /\ monthly_food_summary.done
    /\ ~workday_food_average.done
    /\ \E outcome \in WorkdayAverageOutcomes(food_df.rows) :
          /\ error' = outcome
          /\ workday_food_average' =
                IF outcome = "none"
                THEN [ done |-> TRUE,
                       rows |-> calculate_workday_food_average(food_df.rows) ]
                ELSE workday_food_average
    /\ UNCHANGED <<csv_files, kakeibo_data, page, warning, data_range, balance_vars,
                   fvc_vars, food_df, monthly_food_summary, weekday_vars, main_vars, upload_vars, cache, rerun_vars>>

\* get_weekday_count_in_month applied to a year and a month
GetWeekdayCountInMonth ==
    /\ ~weekday_result.done
    /\ weekday_result' =
           [ done |-> TRUE,
             value |-> get_weekday_count_in_month(weekday_args[1], weekday_args[2]) ]
    /\ UNCHANGED <<csv_files, kakeibo_data, page, error, warning, data_range,
                   balance_vars, fvc_vars, food_vars, weekday_args,
                   main_vars, upload_vars, cache, rerun_vars>>

\* st.cache_data(ttl="1h"): the time to live of an entry passes
CacheExpires ==
    /\ \E f \in CachedFunctions :
           /\ IsHit(cache[f])
           /\ cache' = [cache EXCEPT ![f].fresh = FALSE]
    /\ UNCHANGED <<csv_files, kakeibo_data, page, error, warning, data_range,
                   balance_vars, fvc_vars, food_vars, weekday_vars, main_vars,
                   upload_vars, rerun_vars>>

\* what the run of a page has produced
RunOutputs ==
    [ done |-> TRUE, page |-> page, data_range |-> data_range,
      balance_df |-> balance_df, total_income_expense |-> total_income_expense,
      average_income_expense |-> average_income_expense,
      monthly_balance |-> monthly_balance, fvc_df |-> fvc_df,
      monthly_cost_summary |-> monthly_cost_summary,
      cost_summaries |-> cost_summaries, food_df |-> food_df,
      monthly_food_summary |-> monthly_food_summary,
      workday_food_average |-> workday_food_average ]

\* Streamlit runs the script of a page again from its first line: nothing
\* of the run before is kept but the cache
Rerun ==
    /\ page \in {"balance", "fvc", "food"}
    /\ reruns < MaxReruns
    /\ reruns' = reruns + 1
    /\ previous_run' = RunOutputs
    /\ page' = "home"
    /\ kakeibo_data' = None
    /\ error' = "none"
    /\ warning' = "none"
    /\ cache_hit' = FALSE
    /\ data_range' = Unset
    /\ balance_df' = [done |-> FALSE, rows |-> <<>>]
    /\ total_income_expense' = Unset
    /\ average_income_expense' = Unset
    /\ monthly_balance' = [done |-> FALSE, rows |-> <<>>]
    /\ fvc_df' = [done |-> FALSE, rows |-> <<>>]
    /\ monthly_cost_summary' = [done |-> FALSE, rows |-> <<>>]
    /\ cost_summaries' = Unset
    /\ food_df' = [done |-> FALSE, rows |-> <<>>]
    /\ monthly_food_summary' = [done |-> FALSE, rows |-> <<>>]
    /\ workday_food_average' = [done |-> FALSE, rows |-> <<>>]
    /\ UNCHANGED <<csv_files, weekday_vars, main_vars, upload_vars, cache>>

\* file_upload.main: the name of the uploaded file is validated
ValidateFileName ==
    /\ ~uploaded_file.is_none
    /\ upload_pc = "start"
    /\ LET name_result == validate_file_name(uploaded_file.name)
       IN  IF ~name_result.is_valid
           THEN /\ upload_message' = name_result.message
                /\ upload_pc' = "done"
                /\ UNCHANGED upload_log
           ELSE /\ upload_pc' = "name valid"
                /\ upload_log' = Append(upload_log, [step |-> "name valid"])
                /\ UNCHANGED upload_message
    /\ UNCHANGED <<uploaded_file, s3_key>>
    /\ UNCHANGED <<csv_files, kakeibo_data, page, error, warning, data_range,
                   balance_vars, fvc_vars, food_vars, weekday_vars, main_vars, cache,
                   rerun_vars>>

\* file_upload.main: the content is decoded, read and validated and the key
\* is determined; an exception is caught and shown
ValidateCsvContent ==
    /\ upload_pc = "name valid"
    /\ LET start_date == validate_file_name(uploaded_file.name).start_date
           content == validate_csv_content(uploaded_file.columns)
           key == determine_s3_key(start_date)
       IN  IF ~uploaded_file.decodable
           THEN /\ upload_message' = "exception"
                /\ upload_pc' = "done"
                /\ UNCHANGED <<s3_key, upload_log>>
           ELSE IF ~content.is_valid
           THEN /\ upload_message' = "missing columns"
                /\ upload_pc' = "done"
                /\ UNCHANGED <<s3_key, upload_log>>
           ELSE IF key.error # "none"
           THEN /\ upload_message' = "exception"
                /\ upload_pc' = "done"
                /\ upload_log' = Append(upload_log, [step |-> "content valid"])
                /\ UNCHANGED s3_key
           ELSE /\ s3_key' = [done |-> TRUE, value |-> key.s3_key]
                /\ upload_pc' = "validated"
                /\ upload_log' = Append(upload_log, [step |-> "content valid"])
                /\ UNCHANGED upload_message
    /\ UNCHANGED uploaded_file
    /\ UNCHANGED <<csv_files, kakeibo_data, page, error, warning, data_range,
                   balance_vars, fvc_vars, food_vars, weekday_vars, main_vars, cache,
                   rerun_vars>>

\* file_upload.main: the upload button; pressed, the file is handed to
\* upload_to_s3 with the key and the outcome is shown
UploadButton ==
    /\ upload_pc = "validated"
    /\ upload_pc' = "done"
    /\ \E pressed \in BOOLEAN :
           IF pressed
           THEN \E result \in upload_to_s3(uploaded_file.name, s3_key.value) :
                    /\ upload_message' = result
                    /\ upload_log' = upload_log \o
                           << [step |-> "button"],
                              [step |-> "upload", file_name |-> uploaded_file.name,
                               s3_key |-> s3_key.value] >>
           ELSE UNCHANGED <<upload_message, upload_log>>
    /\ UNCHANGED <<uploaded_file, s3_key>>
    /\ UNCHANGED <<csv_files, kakeibo_data, page, error, warning, data_range,
                   balance_vars, fvc_vars, food_vars, weekday_vars, main_vars, cache,
                   rerun_vars>>

\* main.py: the button reads all data with load_all_data_from_s3; when the
\* frame has rows, the number of rows and len(found_files) are shown
LoadAllDataFromS3 ==
    /\ page = "home"
    /\ page' = "main"
    /\ LET result == load_all_data_from_s3(csv_files)
       IN  /\ error' = result.error
           /\ IF result.error = "none"
              THEN /\ all_df' = [done |-> TRUE, value |-> result.all_df]
                   /\ found_files' = result.found_files
                   /\ file_count' = IF result.all_df.rows # <<>>
                                    THEN [done |-> TRUE,
                                          value |-> Len(result.found_files)]
                                    ELSE file_count
              ELSE UNCHANGED main_vars
    /\ UNCHANGED <<csv_files, kakeibo_data, warning, data_range, balance_vars,
                   fvc_vars, food_vars, weekday_vars, upload_vars, cache, rerun_vars>>

Next ==
    \/ LoadAllDataFromS3
    \/ PreprocessData
    \/ DisplayKakeiboDataRange
    \/ CalculateTotalIncomeExpense
    \/ DisplayAverageIncomeExpense
    \/ PlotMonthlyBalanceTrend
    \/ FvcPreprocessKakeiboData
    \/ SummarizeMonthlyFixedVariableCosts
    \/ FvcDisplayKakeiboDataRange
    \/ DisplayCostSummaries
    \/ FoodPreprocessKakeiboData
    \/ SummarizeMonthlyFoodData
    \/ CalculateWorkdayFoodAverage

\* the classification step of each page
NextClassify ==
    \/ PreprocessData
    \/ FvcPreprocessKakeiboData
    \/ FoodPreprocessKakeiboData

\* the weekday count of a month
InitWeekday ==
    /\ PagesInit({<<>>})
    /\ weekday_args \in (FirstYear..LastYear) \X (1..12)
    /\ UploadInit({NoFile})

NextWeekday == GetWeekdayCountInMonth

\* the pages run again, with the cache
InitCache == InitFrom(LoaderListings(1))

NextCache ==
    \/ Next
    \/ Rerun
    \/ CacheExpires

\* the upload page
InitUpload ==
    /\ PagesInit({<<>>})
    /\ weekday_args = <<2025, 1>>
    /\ UploadInit(UploadedFiles)

NextUpload ==
    \/ ValidateFileName
    \/ ValidateCsvContent
    \/ UploadButton

Spec == Init /\ [][Next]_vars
SpecClassify == InitClassify /\ [][NextClassify]_vars
SpecBalance == InitBalance /\ [][Next]_vars
SpecCost == InitCost /\ [][Next]_vars
SpecOrder == InitOrder /\ [][Next]_vars
SpecFood == InitFood /\ [][Next]_vars
SpecSchema == InitSchema /\ [][Next]_vars
SpecLoader == InitLoader /\ [][Next]_vars
SpecWeekday == InitWeekday /\ [][NextWeekday]_vars
SpecUpload == InitUpload /\ [][NextUpload]_vars
SpecCache == InitCache /\ [][NextCache]_vars

----------------------------------------------------------------------------
(* Claims *)

\* the raw rows the target/transfer filter keeps
IsKeptRaw(row) == row.is_target = 1 /\ row.is_transfer = 0
KeptRows(table) == SelectSeq(table, IsKeptRaw)

\* the filtered rows of one month
MonthRows(df, ym) == LET InMonth(r) == ToPeriodM(r.date) = ym IN SelectSeq(df, InMonth)

\* C1: a row whose is_target is not 1 or whose is_transfer is not 0
\* contributes to no aggregate: every aggregate of the balance, cost and food
\* pages equals the aggregate of the table with those rows removed.
C1_ExcludedRowsContributeNothing ==
    LET kept == KeptRows(kakeibo_data.rows)
    IN  /\ total_income_expense.done =>
              total_income_expense.value
                  = calculate_total_income_expense(preprocess_data(kept))
        /\ average_income_expense.done =>
              average_income_expense.value
                  = display_average_income_expense(preprocess_data(kept))
        /\ monthly_balance.done =>
              monthly_balance.rows
                  = plot_monthly_balance_trend(preprocess_data(kept),
                                               monthly_balance.include_bonus)
        /\ monthly_cost_summary.done =>
              \E away \in SUBSET CostTieCells(fvc_preprocess_kakeibo_data(kept)) :
                  monthly_cost_summary.rows
                      = summarize_monthly_fixed_variable_costs(
                            fvc_preprocess_kakeibo_data(kept), away)
        /\ cost_summaries.done =>
              \E away \in SUBSET CostTieCells(fvc_preprocess_kakeibo_data(kept)) :
                  LET summary == summarize_monthly_fixed_variable_costs(
                                     fvc_preprocess_kakeibo_data(kept), away)
                  IN  \E overall \in SUBSET OverallTieCells(summary) :
                          cost_summaries.value = display_cost_summaries(summary, overall)
        /\ monthly_food_summary.done =>
              monthly_food_summary.rows
                  = summarize_monthly_food_data(food_preprocess_kakeibo_data(kept))

\* a non-target row alongside a target row, and the totals computed
C1_Witness ==
    /\ Len(kakeibo_data.rows) = 2
    /\ \E i, j \in 1..2 :
          /\ kakeibo_data.rows[i].is_target = 0
          /\ IsKeptRaw(kakeibo_data.rows[j])
          /\ ToPeriodM(kakeibo_data.rows[i].date) = ToPeriodM(kakeibo_data.rows[j].date)
    /\ total_income_expense.done
    /\ total_income_expense.value.total_balance # 0

\* the scenario of the specification: one month with a salary of 300000 and
\* a food expense of 50000
IsScenario(df) ==
    /\ Len(df) = 2
    /\ \E i, j \in 1..2 :
          /\ df[i].major_category = INCOME /\ df[i].minor_category = SALARY
          /\ df[i].amount = 300000
          /\ df[j].major_category = FOOD /\ df[j].amount = -50000
          /\ ToPeriodM(df[i].date) = <<2025, 1>>
          /\ ToPeriodM(df[j].date) = <<2025, 1>>

\* C2: in both income modes every month row of plot_monthly_balance_trend has
\* balance = total_income + total_expense, and the scenario gives 300000,
\* -50000 and 250000.
C2_BalanceIsIncomePlusExpense ==
    monthly_balance.done =>
        /\ \A i \in 1..Len(monthly_balance.rows) :
              monthly_balance.rows[i].balance
                  = monthly_balance.rows[i].total_income
                    + monthly_balance.rows[i].total_expense
        /\ IsScenario(balance_df.rows) =>
              monthly_balance.rows
                  = << [ year_month |-> <<2025, 1>>, total_income |-> 300000,
                         total_expense |-> -50000, balance |-> 250000 ] >>

C2_Witness ==
    /\ monthly_balance.done
    /\ ~monthly_balance.include_bonus
    /\ IsScenario(balance_df.rows)
    /\ Len(kakeibo_data.rows) = 2

HasIncomeFlag(r) == r.flags.is_salary \/ r.flags.is_bonus \/ r.flags.is_other_income

\* C3: in the bonus-inclusive mode the income of a month, and the total
\* income, is the sum of amount over the filtered rows flagged is_salary or
\* is_bonus or is_other_income.
C3_IncomeIncludesOtherIncome ==
    /\ (monthly_balance.done /\ monthly_balance.include_bonus) =>
          \A i \in 1..Len(monthly_balance.rows) :
              monthly_balance.rows[i].total_income
                  = SumAmount(SelectSeq(MonthRows(balance_df.rows,
                                                  monthly_balance.rows[i].year_month),
                                        HasIncomeFlag))
    /\ total_income_expense.done =>
          total_income_expense.value.total_income
              = SumAmount(SelectSeq(balance_df.rows, HasIncomeFlag))

\* C4 as stated: in each mode every filtered row of a month is counted in
\* exactly one of income and expense, so income + expense is the sum of all
\* filtered amounts of the month.
C4_ExpenseIsComplementOfIncome ==
    monthly_balance.done =>
        \A i \in 1..Len(monthly_balance.rows) :
            monthly_balance.rows[i].total_income + monthly_balance.rows[i].total_expense
                = SumAmount(MonthRows(balance_df.rows, monthly_balance.rows[i].year_month))

IsBonusOnly(r) == r.flags.is_bonus /\ ~r.flags.is_salary
IsNeitherSalaryNorBonus(r) == ~r.flags.is_salary /\ ~r.flags.is_bonus

\* C4 amended: in both modes the expense is the sum over the rows that are
\* neither is_salary nor is_bonus.  With the bonus every filtered row of the
\* month is counted in exactly one of income and expense; without it the
\* income is the is_salary rows and the rows that are is_bonus and not
\* is_salary are counted in neither, so income + expense is the sum of the
\* filtered amounts of the month less the amounts of those rows.
C4_ExpenseExcludesBonusInBothModes ==
    monthly_balance.done =>
        \A i \in 1..Len(monthly_balance.rows) :
            LET r == monthly_balance.rows[i]
                month == MonthRows(balance_df.rows, r.year_month)
            IN  /\ r.total_expense = SumAmount(SelectSeq(month, IsNeitherSalaryNorBonus))
                /\ monthly_balance.include_bonus =>
                      r.total_income + r.total_expense = SumAmount(month)
                /\ ~monthly_balance.include_bonus =>
                      /\ r.total_income = SumAmount(SelectSeq(month, IsSalary))
                      /\ r.total_income + r.total_expense
                            = SumAmount(month) - SumAmount(SelectSeq(month, IsBonusOnly))

\* the trend without the bonus of a month that holds a bonus and an expense
C4_Witness ==
    /\ monthly_balance.done
    /\ ~monthly_balance.include_bonus
    /\ Len(monthly_balance.rows) = 1
    /\ \E i \in 1..Len(balance_df.rows) : IsBonusOnly(balance_df.rows[i])
    /\ \E i \in 1..Len(balance_df.rows) : IsNeitherSalaryNorBonus(balance_df.rows[i])

\* a text cell holds the pattern
TextContains(s, pat) == s # NaN /\ Contains(s, pat)

\* the number of conditions of a set of booleans that hold
CountTrue(flags) == Cardinality({ i \in DOMAIN flags : flags[i] })

\* C5: every row that passes the target/transfer filter has exactly one of
\* is_salary, is_bonus, is_other_income (balance.preprocess_data) and
\* is_fixed_cost, is_variable_cost (fixed_variable_cost.preprocess_kakeibo_data)
\* true, rows whose minor_category holds both income markers included.
C5_ExactlyOneOfFiveFlags ==
    balance_df.done =>
        \A i \in 1..Len(balance_df.rows) :
            LET r == balance_df.rows[i]
                c == FvcFlags(r)
            IN  CountTrue(<< r.flags.is_salary, r.flags.is_bonus, r.flags.is_other_income,
                             c.is_fixed_cost, c.is_variable_cost >>) = 1

\* C6: is_fixed_cost and is_variable_cost are never both true, exactly one
\* of them is true when major_category does not hold the income marker,
\* is_fixed_cost is membership of major_category in FIXED_COST_CATEGORIES and
\* is_variable_cost is neither income nor fixed cost.
C6_FixedAndVariableCost ==
    fvc_df.done =>
        \A i \in 1..Len(fvc_df.rows) :
            LET r == fvc_df.rows[i]
                income == TextContains(r.major_category, INCOME_MARKER)
            IN  /\ ~(r.flags.is_fixed_cost /\ r.flags.is_variable_cost)
                /\ ~income => (r.flags.is_fixed_cost # r.flags.is_variable_cost)
                /\ r.flags.is_fixed_cost <=> r.major_category \in FIXED_COST_CATEGORIES
                /\ r.flags.is_variable_cost <=> (~income /\ ~r.flags.is_fixed_cost)

\* a row whose major_category holds a fixed-cost category without being one
\* of them: a variable cost
C6_Witness ==
    /\ fvc_df.done
    /\ Len(fvc_df.rows) = 1
    /\ fvc_df.rows[1].major_category = HOUSING_LOAN
    /\ ~fvc_df.rows[1].flags.is_fixed_cost
    /\ fvc_df.rows[1].flags.is_variable_cost

\* C7: the three income flags imply the income marker in major_category;
\* is_salary is the salary marker in minor_category of an income row,
\* is_bonus the one-time-income marker, is_other_income an income row with
\* neither marker, so every income row has an income flag.
C7_IncomeFlags ==
    balance_df.done =>
        \A i \in 1..Len(balance_df.rows) :
            LET r == balance_df.rows[i]
                income == TextContains(r.major_category, INCOME_MARKER)
                salary == TextContains(r.minor_category, SALARY_MARKER)
                bonus == TextContains(r.minor_category, BONUS_MARKER)
            IN  /\ r.flags.is_salary <=> (income /\ salary)
                /\ r.flags.is_bonus <=> (income /\ bonus)
                /\ r.flags.is_other_income <=> (income /\ ~salary /\ ~bonus)
                /\ HasIncomeFlag(r) => income
                /\ income => HasIncomeFlag(r)

\* an income row with no minor_category, flagged as other income
C7_Witness ==
    /\ balance_df.done
    /\ Len(balance_df.rows) = 2
    /\ TextContains(balance_df.rows[1].major_category, INCOME_MARKER)
    /\ balance_df.rows[1].minor_category = NaN
    /\ balance_df.rows[1].flags.is_other_income
    /\ balance_df.rows[2].minor_category = SALARY

\* the exact ratio n / d * 100 lies within 0.05 of the tenths t
IsRoundedRatio(t, n, d) == 2 * Abs(t * d - 1000 * n) <= Abs(d)

\* C8: in every month row with total_cost > 0 the two ratios add up to
\* within 0.1 of 100.0, each being cost / total_cost * 100 rounded to one
\* decimal.
C8_RatiosSumToHundred ==
    monthly_cost_summary.done =>
        \A i \in 1..Len(monthly_cost_summary.rows) :
            LET r == monthly_cost_summary.rows[i]
            IN  (r.total_cost.k = "num" /\ r.total_cost.v > 0) =>
                    /\ r.fixed_cost_ratio.k = "num"
                    /\ r.variable_cost_ratio.k = "num"
                    /\ Abs(r.fixed_cost_ratio.v + r.variable_cost_ratio.v - 1000) <= 1
                    /\ IsRoundedRatio(r.fixed_cost_ratio.v, r.fixed_cost.v, r.total_cost.v)
                    /\ IsRoundedRatio(r.variable_cost_ratio.v, r.variable_cost.v,
                                      r.total_cost.v)

\* a month whose ratios are not whole tenths before the rounding
C8_Witness ==
    /\ monthly_cost_summary.done
    /\ \E i \in 1..Len(monthly_cost_summary.rows) :
          LET r == monthly_cost_summary.rows[i]
          IN  /\ r.total_cost = Num(3)
              /\ r.fixed_cost_ratio = Num(333)
              /\ r.variable_cost_ratio = Num(667)

\* C9: a ratio is 0 when its total_cost is 0, in the month rows of
\* summarize_monthly_fixed_variable_costs and in display_cost_summaries.
C9_RatioZeroWhenTotalZero ==
    /\ monthly_cost_summary.done =>
          \A i \in 1..Len(monthly_cost_summary.rows) :
              LET r == monthly_cost_summary.rows[i]
              IN  r.total_cost = Num(0) =>
                      /\ r.fixed_cost_ratio = Num(0)
                      /\ r.variable_cost_ratio = Num(0)
    /\ (cost_summaries.done /\ cost_summaries.value.error = "none"
        /\ cost_summaries.value.total_cost = 0) =>
          /\ cost_summaries.value.fixed_cost_ratio = 0
          /\ cost_summaries.value.variable_cost_ratio = 0

\* C10: in every month row fixed_cost is the negated sum of the month's
\* is_fixed_cost rows, variable_cost the negated sum of its is_variable_cost
\* rows and total_cost their sum, a number also when the month has rows of
\* one kind only.
C10_CostsAreNegatedSums ==
    monthly_cost_summary.done =>
        \A i \in 1..Len(monthly_cost_summary.rows) :
            LET r == monthly_cost_summary.rows[i]
                month == MonthRows(fvc_df.rows, r.year_month)
                fixed == -SumAmount(SelectSeq(month, IsFixedCost))
                variable == -SumAmount(SelectSeq(month, IsVariableCost))
            IN  /\ r.fixed_cost = Num(fixed)
                /\ r.variable_cost = Num(variable)
                /\ r.total_cost = Num(fixed + variable)


\* the months of the rows of a summary, in the order of the rows
SummaryMonths(rows) == [i \in 1..Len(rows) |-> rows[i].year_month]

\* a summary has one row for each month of the filtered rows and no other row
HasOneRowPerMonth(rows, df) ==
    /\ \A i, j \in 1..Len(rows) : rows[i].year_month = rows[j].year_month => i = j
    /\ Range(SummaryMonths(rows)) = { ToPeriodM(df[i].date) : i \in 1..Len(df) }

\* C11: the monthly summary of plot_monthly_balance_trend and the one of
\* summarize_monthly_fixed_variable_costs hold exactly one row for every
\* month that has a filtered row, a month of income rows only included, and
\* no row for another month.
C11_OneRowPerMonth ==
    /\ monthly_balance.done => HasOneRowPerMonth(monthly_balance.rows, balance_df.rows)
    /\ monthly_cost_summary.done =>
          HasOneRowPerMonth(monthly_cost_summary.rows, fvc_df.rows)


\* the rows of a summary are in strictly increasing order of month
IsInMonthOrder(rows) ==
    \A i \in 1..(Len(rows) - 1) : PeriodLess(rows[i].year_month, rows[i + 1].year_month)

\* C12: whatever the order of the rows of the raw table, the rows of the
\* monthly balance summary, of the monthly cost summary, of the food pivot and
\* of the workday-average table are in strictly increasing order of month.
C12_RowsInMonthOrder ==
    /\ monthly_balance.done => IsInMonthOrder(monthly_balance.rows)
    /\ monthly_cost_summary.done => IsInMonthOrder(monthly_cost_summary.rows)
    /\ monthly_food_summary.done => IsInMonthOrder(monthly_food_summary.rows)
    /\ workday_food_average.done => IsInMonthOrder(workday_food_average.rows)

\* a workday-average table of three months computed from rows that come
\* latest month first
C12_Witness ==
    /\ workday_food_average.done
    /\ Len(workday_food_average.rows) = 3
    /\ Len(kakeibo_data.rows) = 3
    /\ DateLess(kakeibo_data.rows[2].date, kakeibo_data.rows[1].date)
    /\ DateLess(kakeibo_data.rows[3].date, kakeibo_data.rows[2].date)


\* the sum of the values of a function over a set of its arguments
RECURSIVE SumOver(_, _)
SumOver(f, S) ==
    IF S = {} THEN 0
    ELSE LET x == CHOOSE y \in S : TRUE IN f[x] + SumOver(f, S \ {x})

\* the food rows that belong to a (month, minor_category) group
FoodGroupRows(df) ==
    LET InGroup(r) == r.flags.is_food /\ r.minor_category # NaN
    IN  SelectSeq(df, InGroup)

\* C13: the pivot of summarize_monthly_food_data has one row for each month
\* and one column for each minor_category of the (month, minor_category)
\* groups of the food rows; a cell is the negated sum of the amounts of its
\* group, 0 when the group has no row; total_food is the sum of the cells of
\* the row.
C13_FoodPivot ==
    monthly_food_summary.done =>
        LET rows == monthly_food_summary.rows
            grouped == FoodGroupRows(food_df.rows)
            categories == { grouped[i].minor_category : i \in 1..Len(grouped) }
        IN  /\ HasOneRowPerMonth(rows, grouped)
            /\ \A i \in 1..Len(rows) :
                  /\ DOMAIN rows[i].cells = categories
                  /\ \A c \in categories :
                        LET InCell(r) == /\ ToPeriodM(r.date) = rows[i].year_month
                                         /\ r.minor_category = c
                            group == SelectSeq(grouped, InCell)
                        IN  /\ rows[i].cells[c] = -SumAmount(group)
                            /\ group = <<>> => rows[i].cells[c] = 0
                  /\ rows[i].total_food = SumOver(rows[i].cells, categories)

\* a pivot of two months and two categories with a cell that has no group
C13_Witness ==
    /\ monthly_food_summary.done
    /\ Len(monthly_food_summary.rows) = 2
    /\ \E c, d \in DOMAIN monthly_food_summary.rows[1].cells :
          /\ monthly_food_summary.rows[1].cells[c] = 0
          /\ monthly_food_summary.rows[1].cells[d] > 0
          /\ monthly_food_summary.rows[1].total_food
                = monthly_food_summary.rows[1].cells[d]


\* the day of the week of a date by Zeller's congruence: 0 is Saturday,
\* 1 Sunday, 2 Monday, ..., 6 Friday
Zeller(year, month, day) ==
    LET m == IF month < 3 THEN month + 12 ELSE month
        y == IF month < 3 THEN year - 1 ELSE year
        K == y % 100
        J == y \div 100
    IN  (day + ((13 * (m + 1)) \div 5) + K + (K \div 4) + (J \div 4) + 5 * J) % 7

\* the days of a month that fall on Monday through Friday
WeekdaysOfMonth(year, month) ==
    { day \in 1..DaysInMonth(year, month) : Zeller(year, month, day) \in 2..6 }

WorkFoodRows(df) ==
    LET IsWork(r) == r.flags.is_food /\ r.minor_category = WORK_FOOD_CATEGORY
    IN  SelectSeq(df, IsWork)

\* C15: for every month that has workplace-meal food rows the table of
\* calculate_workday_food_average has one row whose amount is the negated
\* sum of those rows, whose weekday_count is the number of Monday-Friday days
\* of the month and whose daily_average is amount / weekday_count rounded to
\* the nearest whole yen.
C15_WorkdayFoodAverage ==
    workday_food_average.done =>
        LET rows == workday_food_average.rows
            work == WorkFoodRows(food_df.rows)
        IN  /\ HasOneRowPerMonth(rows, work)
            /\ \A i \in 1..Len(rows) :
                  LET r == rows[i]
                  IN  /\ r.amount = -SumAmount(MonthRows(work, r.year_month))
                      /\ r.weekday_count
                            = Cardinality(WeekdaysOfMonth(r.year_month[1], r.year_month[2]))
                      /\ r.weekday_count > 0
                      /\ 2 * Abs(r.daily_average * r.weekday_count - r.amount)
                            <= r.weekday_count

\* 50000 yen of workplace meals in January 2025: 23 weekdays, 2174 yen a day
C15_Witness ==
    /\ workday_food_average.done
    /\ \E i \in 1..Len(workday_food_average.rows) :
          workday_food_average.rows[i]
              = [ year_month |-> <<2025, 1>>, amount |-> 50000,
                  weekday_count |-> 23, daily_average |-> 2174 ]


\* the preprocessed frame of the running page has no rows
ZeroRowsSurvive ==
    \/ (page = "balance" /\ balance_df.done /\ balance_df.rows = <<>>)
    \/ (page = "fvc" /\ fvc_df.done /\ fvc_df.rows = <<>>)
    \/ (page = "food" /\ food_df.done /\ food_df.rows = <<>>)

\* C16: when no row survives the target/transfer filter no aggregate is
\* returned, neither an empty summary nor zero totals, and the only
\* exception that ends the run is EmptyResultError.
C16_EmptyResultRaises ==
    ZeroRowsSurvive =>
        /\ ~total_income_expense.done
        /\ ~average_income_expense.done
        /\ ~monthly_balance.done
        /\ ~monthly_cost_summary.done
        /\ ~cost_summaries.done
        /\ ~monthly_food_summary.done
        /\ ~workday_food_average.done
        /\ error \in {"none", "EmptyResultError"}

\* C17: when the Loader returns None the page shows an informational empty
\* state and no exception ends its run: preprocessing is not applied to None.
C17_AbsentResultIsEmptyState ==
    (page # "home" /\ kakeibo_data.is_none) =>
        /\ error = "none"
        /\ warning # "none"


\* no page has produced anything: no classified frame, no data range and no
\* aggregate
NoOutput ==
    /\ ~balance_df.done /\ ~fvc_df.done /\ ~food_df.done
    /\ ~data_range.done
    /\ ~total_income_expense.done
    /\ ~average_income_expense.done
    /\ ~monthly_balance.done
    /\ ~monthly_cost_summary.done
    /\ ~cost_summaries.done
    /\ ~monthly_food_summary.done
    /\ ~workday_food_average.done

\* C18: when any of the ten required columns is absent from the table that
\* a page has read, the run of the page ends with an error and has produced
\* no output
C18_MissingColumnFailsLoad ==
    ( /\ page # "home"
      /\ ~kakeibo_data.is_none
      /\ validate_csv_content(kakeibo_data.columns).missing_columns # <<>> )
    => (error # "none" /\ NoOutput)


\* a readable object of the listing holds a row whose date is not a date
ListingHasUnparseableDate ==
    \E f \in 1..Len(csv_files) :
        /\ csv_files[f].readable
        /\ "hizuke" \in csv_files[f].columns
        /\ \E i \in 1..Len(csv_files[f].rows) :
               ~IsCalendarDate(csv_files[f].rows[i].date)

\* C19: when a row of the data that was read has a date that cannot be
\* parsed, the path that parsed the date column has ended with an error and
\* has produced no frame: neither a classified frame of a page nor the frame
\* of load_all_data_from_s3
C19_UnparseableDateRejectsLoad ==
    (page # "home" /\ ListingHasUnparseableDate)
    => (error # "none" /\ NoOutput /\ ~all_df.done)


\* the number of rows that the readable objects before the f-th object of
\* the listing hold
RECURSIVE RowsBefore(_)
RowsBefore(f) ==
    IF f = 1 THEN 0
    ELSE RowsBefore(f - 1)
         + (IF csv_files[f - 1].readable THEN Len(csv_files[f - 1].rows) ELSE 0)

\* C20: what a page has read is absent exactly when no object of the listing
\* could be read; otherwise it holds the rows of the readable objects and no
\* other row, in the order of the listing, every row with the cells of the
\* file and with the file name of its object in source_file
C20_SkipsUnreadableFiles ==
    page \in {"balance", "fvc", "food"} =>
        /\ kakeibo_data.is_none <=> (\A f \in 1..Len(csv_files) : ~csv_files[f].readable)
        /\ Len(kakeibo_data.rows) = RowsBefore(Len(csv_files) + 1)
        /\ \A f \in 1..Len(csv_files) :
               csv_files[f].readable =>
                   \A i \in 1..Len(csv_files[f].rows) :
                       LET row == kakeibo_data.rows[RowsBefore(f) + i]
                       IN  /\ row.source_file = Filename(csv_files[f])
                           /\ \A c \in DOMAIN csv_files[f].rows[i] :
                                  row[c] = csv_files[f].rows[i][c]

\* a page has read a listing of two objects with rows, the first of which
\* cannot be read: the data are the two rows of the second
C20_Witness ==
    /\ page = "balance"
    /\ Len(csv_files) = 2
    /\ ~csv_files[1].readable /\ csv_files[1].rows # <<>>
    /\ csv_files[2].readable /\ Len(csv_files[2].rows) = 2
    /\ ~kakeibo_data.is_none
    /\ Len(kakeibo_data.rows) = 2
    /\ kakeibo_data.rows[1].source_file = "b.csv"


\* the objects of the listing that open and decode
ReadableFiles == { f \in 1..Len(csv_files) : csv_files[f].readable }

\* C21: the number of source files shown after a load is the number of
\* objects that were read, without the objects that were found and failed
C21_FileCountIsReadFiles ==
    file_count.done => file_count.value = Cardinality(ReadableFiles)


\* the calendar month after the month of a date, under the prefix
FollowingMonthKey(date) ==
    IF date[2] = 12 THEN <<"S3_PREFIX", date[1] + 1, 1>>
    ELSE <<"S3_PREFIX", date[1], date[2] + 1>>

\* C22: the key determined for an accepted file name names the calendar
\* month that follows the month of the start date, the January of the next
\* year for a start date in December
C22_KeyIsFollowingMonth ==
    s3_key.done => s3_key.value = FollowingMonthKey(uploaded_file.name.start_date)


\* upload_to_s3 was called in the run of the upload page
UploadAttempted == \E i \in 1..Len(upload_log) : upload_log[i].step = "upload"

\* the name of the uploaded file matches the pattern, its two dates are days
\* of the calendar and the start date is before the end date
NameIsValid ==
    /\ uploaded_file.name.matches
    /\ IsCalendarDate(uploaded_file.name.start_date)
    /\ IsCalendarDate(uploaded_file.name.end_date)
    /\ DateLess(uploaded_file.name.start_date, uploaded_file.name.end_date)

\* the content of the uploaded file decodes and has every required column
ContentIsValid ==
    /\ uploaded_file.decodable
    /\ \A i \in 1..Len(REQUIRED_COLUMNS) : REQUIRED_COLUMNS[i] \in uploaded_file.columns

\* C26: upload_to_s3 is called only after the file name was found valid, then
\* the content was found valid, then the button was pressed, in this order,
\* and with the key determine_s3_key gives for the start date of the name; a
\* run that ended on an invalid name or content has shown an error and has
\* not called upload_to_s3
C26_UploadOnlyAfterValidation ==
    /\ UploadAttempted =>
           /\ [i \in 1..Len(upload_log) |-> upload_log[i].step]
                  = << "name valid", "content valid", "button", "upload" >>
           /\ NameIsValid
           /\ ContentIsValid
           /\ upload_log[4].file_name = uploaded_file.name
           /\ upload_log[4].s3_key
                  = determine_s3_key(uploaded_file.name.start_date).s3_key
    /\ (upload_pc = "done" /\ ~(NameIsValid /\ ContentIsValid)) =>
           /\ upload_message \in { "wrong format", "invalid date",
                                   "start not before end", "exception",
                                   "missing columns" }
           /\ ~UploadAttempted

\* the button was pressed for a valid file and upload_to_s3 was called
C26_Witness ==
    /\ UploadAttempted
    /\ NameIsValid /\ ContentIsValid
    /\ upload_pc = "done"


\* an output of the running page and the same output of the run before
\* agree when both runs have computed it
SameOutput(now, before) == (now.done /\ before.done) => now = before

\* C23: a page that runs again on the same bucket computes the outputs the
\* run before computed, whether its data come from the cache or from a new
\* read after the time to live, and whatever the run before has left (the
\* monthly summary of the trend is compared for the same bonus mode)
C23_RerunGivesSameOutput ==
    (previous_run.done /\ previous_run.page = page) =>
        /\ SameOutput(balance_df, previous_run.balance_df)
        /\ SameOutput(data_range, previous_run.data_range)
        /\ SameOutput(total_income_expense, previous_run.total_income_expense)
        /\ SameOutput(average_income_expense, previous_run.average_income_expense)
        /\ ( /\ monthly_balance.done /\ previous_run.monthly_balance.done
             /\ monthly_balance.include_bonus
                    = previous_run.monthly_balance.include_bonus )
           => monthly_balance = previous_run.monthly_balance
        /\ SameOutput(fvc_df, previous_run.fvc_df)
        /\ SameOutput(monthly_cost_summary, previous_run.monthly_cost_summary)
        /\ SameOutput(cost_summaries, previous_run.cost_summaries)
        /\ SameOutput(food_df, previous_run.food_df)
        /\ SameOutput(monthly_food_summary, previous_run.monthly_food_summary)
        /\ SameOutput(workday_food_average, previous_run.workday_food_average)

\* the cost page ran again after the time to live had passed, read the bucket
\* anew and computed a summary with a row, as the run before had
C23_Witness ==
    /\ previous_run.done
    /\ previous_run.page = "fvc"
    /\ page = "fvc"
    /\ ~cache_hit
    /\ previous_run.monthly_cost_summary.done
    /\ monthly_cost_summary.done
    /\ monthly_cost_summary.rows # <<>>


\* the sum of a column over the rows of a summary
RECURSIVE SumColumn(_, _)
SumColumn(rows, column) ==
    IF rows = <<>> THEN 0
    ELSE Head(rows)[column] + SumColumn(Tail(rows), column)

\* C24: the balances of the months of the bonus-inclusive trend add up to the
\* total_balance of calculate_total_income_expense, which is the sum of
\* amount over the filtered rows; the incomes of the months add up to the
\* total income and the expenses of the months to the total expense
C24_MonthsAddUpToTotals ==
    ( /\ total_income_expense.done
      /\ monthly_balance.done
      /\ monthly_balance.include_bonus ) =>
        /\ SumColumn(monthly_balance.rows, "balance")
               = total_income_expense.value.total_balance
        /\ total_income_expense.value.total_balance = SumAmount(balance_df.rows)
        /\ SumColumn(monthly_balance.rows, "total_income")
               = total_income_expense.value.total_income
        /\ SumColumn(monthly_balance.rows, "total_expense")
               = total_income_expense.value.total_expense

\* the bonus-inclusive trend of two months, a bonus row among the rows
C24_Witness ==
    /\ total_income_expense.done
    /\ monthly_balance.done
    /\ monthly_balance.include_bonus
    /\ Len(monthly_balance.rows) = 2
    /\ \E i \in 1..Len(balance_df.rows) :
           balance_df.rows[i].flags.is_bonus /\ ~balance_df.rows[i].flags.is_salary
    /\ total_income_expense.value.total_expense < 0


\* the rows of a frame flagged as food
FoodRowsOf(df) == SelectSeq(df, IsFood)

\* C25: the pivot has a row for every month with a food row, and total_food
\* of a month is the negated sum of amount over all food rows of the month,
\* the food rows without minor_category included
C25_TotalFoodCoversAllFoodRows ==
    monthly_food_summary.done =>
        LET rows == monthly_food_summary.rows
            food == FoodRowsOf(food_df.rows)
        IN  /\ HasOneRowPerMonth(rows, food)
            /\ \A i \in 1..Len(rows) :
                   LET InMonth(r) == ToPeriodM(r.date) = rows[i].year_month
                   IN  rows[i].total_food = -SumAmount(SelectSeq(food, InMonth))

====
